---- MODULE Spec2Model ----
(***************************************************************************)
(* gpt-codex-proxy: the token store and refresher, the request handler of  *)
(* the Node server (src/src/server.mjs, lines 1-560) and the request       *)
(* handler of the Cloudflare worker (same file, lines 562-958).            *)
(*                                                                         *)
(* Time is in milliseconds.  JSON values are tagged records [t, v]; a JS   *)
(* object is a function from its keys to JSON values.  Header values and   *)
(* the proxy secret are sequences of one-character strings, so that trim,  *)
(* the quote stripping and the scheme matching are computed.               *)
(***************************************************************************)
EXTENDS Integers, Sequences, FiniteSets, TLC

VARIABLES
    workload,               \* which inputs the environment offers (fixed by Init)
    impl,                   \* "server" (Node) or "worker" (Cloudflare): fixed by Init
    env,                    \* process.env / the worker's Env
    now,                    \* Date.now()
    tokenState,             \* server: the module-level tokenState
    TOKEN_STORE,            \* worker: the KV entry "tokens": <<>> or <<TokenData>>
    pc,                     \* per request: where its handler is suspended
    request,                \* per request: method, path, headers, body as received
    clientRequestedStream,  \* per request: the handler's local of that name
    token,                  \* per request: the handler's local token / tokenData
    reply,                  \* per request: the response started for it
    tokenCalls,             \* per request: the token-endpoint calls it issued
    upstreamCalls,          \* per request: the upstream calls it issued
    pipe,                   \* per request: what the relay has read of the upstream body
    bodyRead,               \* per request: readJsonBody's chunk count and its local total
    warned                  \* per request: what the handler wrote with console.warn

vars == <<workload, impl, env, now, tokenState, TOKEN_STORE, pc, request,
          clientRequestedStream, token, reply, tokenCalls, upstreamCalls, pipe,
          bodyRead, warned>>

(***************************************************************************)
(* Bounds of the model.                                                    *)
(***************************************************************************)
NReq == 2          \* concurrent requests in the "concurrent" workload
MaxTicks == 1      \* clock advances
TickMs == 1000     \* one clock advance
Now0 == 1000       \* Date.now() when the process starts
MaxChunks == 2     \* chunks a request body arrives in

(***************************************************************************)
(* JavaScript values.                                                      *)
(***************************************************************************)
undefined == "<undefined>"

JUndef == [t |-> "undefined", v |-> 0]
JNull == [t |-> "null", v |-> 0]
JStr(s) == [t |-> "string", v |-> s]
JNum(n) == [t |-> "number", v |-> n]

\* the number JSON.parse yields for a literal beyond the double range (1e999)
JInfinity == [t |-> "infinity", v |-> 0]
JBool(b) == [t |-> "boolean", v |-> b]
JObj(f) == [t |-> "object", v |-> f]
JArr(s) == [t |-> "array", v |-> s]

\* obj.key on a JS object (a function from keys to JSON values)
Get(obj, key) == IF key \in DOMAIN obj THEN obj[key] ELSE JUndef

\* j.key on any JSON value the code has tested with isObject
Field(j, key) == IF j.t = "object" THEN Get(j.v, key) ELSE JUndef

isObject(j) == j.t \in {"object", "array"}

asString(j) == IF j.t = "string" THEN j.v ELSE undefined

\* a variant that only falls back when a is undefined
OrElse_nullish(a, b) == IF a = undefined THEN b ELSE a

\* a || b on strings-or-undefined
OrElse(a, b) == IF a = undefined \/ a = "" THEN b ELSE a

\* a ?? b on strings-or-undefined
Coalesce(a, b) == IF a = undefined THEN b ELSE a

(***************************************************************************)
(* Token codec.  A token is an opaque string; JwtPayloads gives, for the   *)
(* tokens the environment hands out, the JSON value that the base64url     *)
(* decoding and JSON parsing of its second segment yields.  A token that   *)
(* is not in the table has fewer than two segments or a payload that does  *)
(* not decode.                                                             *)
(***************************************************************************)
AuthClaimKey == "https://api.openai.com/auth"

JwtPayloads ==
    "at0" :> JObj("exp" :> JNum(62) @@ "chatgpt_account_id" :> JStr("acct-boot"))
 @@ "at1" :> JObj(AuthClaimKey :> JObj("chatgpt_account_id" :> JStr("acct-at1")))
 @@ "at2" :> JObj("sub" :> JStr("user-2"))
 @@ "at3" :> JNum(7)
 @@ "at4" :> JObj("exp" :> JNum(1))
 @@ "id1" :> JObj("organizations" :> JArr(<<JObj("id" :> JStr("org-id1"))>>))
 @@ "id2" :> JObj("exp" :> JStr("62"))

decodeJwtPayload(tok) ==
    IF tok \in DOMAIN JwtPayloads /\ isObject(JwtPayloads[tok])
    THEN JwtPayloads[tok]
    ELSE JNull

\* a variant that gives a token without a readable exp an hour
tokenExpiryMs_assumeHour(tok) ==
    LET claims == decodeJwtPayload(tok)
    IN  IF claims = JNull \/ Field(claims, "exp").t # "number"
        THEN 3600000
        ELSE Field(claims, "exp").v * 1000

tokenExpiryMs(tok) ==
    LET claims == decodeJwtPayload(tok)
    IN  IF claims = JNull \/ Field(claims, "exp").t # "number"
        THEN 0
        ELSE Field(claims, "exp").v * 1000

extractAccountIdFromClaims(claims) ==
    LET direct == asString(Field(claims, "chatgpt_account_id"))
        authClaim == Field(claims, AuthClaimKey)
        nested == IF isObject(authClaim)
                  THEN asString(Field(authClaim, "chatgpt_account_id"))
                  ELSE undefined
        organizations == Field(claims, "organizations")
        first == IF organizations.t = "array" /\ Len(organizations.v) > 0
                 THEN organizations.v[1]
                 ELSE JUndef
        orgId == IF isObject(first) THEN asString(Field(first, "id")) ELSE undefined
    IN  OrElse(direct, OrElse(nested, OrElse(orgId, undefined)))

extractAccountId(tok) ==
    IF tok = undefined \/ tok = ""
    THEN undefined
    ELSE LET claims == decodeJwtPayload(tok)
         IN  IF claims = JNull THEN undefined ELSE extractAccountIdFromClaims(claims)

(***************************************************************************)
(* Token store and refresher.                                              *)
(***************************************************************************)
TokenState(at, rt, exp, acct) ==
    [accessToken |-> at, refreshToken |-> rt, expiresAt |-> exp, accountId |-> acct]

\* the module-level tokenState after the server's start-up
BootTokenState(e) ==
    TokenState(e.OPENAI_ACCESS_TOKEN,
               e.OPENAI_REFRESH_TOKEN,
               tokenExpiryMs(e.OPENAI_ACCESS_TOKEN),
               OrElse(extractAccountId(e.OPENAI_ACCESS_TOKEN), e.CHATGPT_ACCOUNT_ID))

\* Number(s) for the strings the issuer payloads of the model carry
StringToNumber(s) ==
    CASE s = "61" -> [finite |-> TRUE, n |-> 61]
      [] s = "3600" -> [finite |-> TRUE, n |-> 3600]
      [] s = "0" -> [finite |-> TRUE, n |-> 0]
      [] s = "" -> [finite |-> TRUE, n |-> 0]
      [] OTHER -> [finite |-> FALSE, n |-> 0]

\* Number(j): NaN and the infinities are [finite |-> FALSE]
ToNumber(j) ==
    CASE j.t = "number" -> [finite |-> TRUE, n |-> j.v]
      [] j.t = "string" -> StringToNumber(j.v)
      [] j.t = "boolean" -> [finite |-> TRUE, n |-> IF j.v THEN 1 ELSE 0]
      [] j.t = "null" -> [finite |-> TRUE, n |-> 0]
      [] OTHER -> [finite |-> FALSE, n |-> 0]

\* JS truthiness of a JSON value
Truthy(j) ==
    CASE j.t \in {"undefined", "null"} -> FALSE
      [] j.t = "boolean" -> j.v
      [] j.t = "number" -> j.v # 0
      [] j.t = "string" -> Len(j.v) > 0
      [] OTHER -> TRUE

DefaultExpiresIn == 3600

ExpiryWindowMs == 60000

responseOk(response) == response.status >= 200 /\ response.status <= 299

Failure(msg) == [ok |-> FALSE, message |-> msg, state |-> TokenState("", "", 0, undefined)]

Success(st) == [ok |-> TRUE, message |-> "", state |-> st]

\* a variant that takes every finite lifetime as it comes
safeLifetime_anyFinite(expiresIn) == IF expiresIn.finite THEN expiresIn.n ELSE DefaultExpiresIn

\* lines 378 and 742: Number.isFinite(expiresIn) && expiresIn > 0 ? expiresIn : 3600
safeLifetime(expiresIn) ==
    IF expiresIn.finite /\ expiresIn.n > 0 THEN expiresIn.n ELSE DefaultExpiresIn

\* a variant that installs whatever a 2xx answer holds, access token or not
refreshAccessToken_trusting(refreshToken, response, t, e) ==
    IF response.kind = "reject"
    THEN Failure("TypeError: fetch failed")
    ELSE IF ~responseOk(response)
    THEN Failure("Error: token refresh failed: " \o ToString(response.status)
                                                \o " " \o response.text)
    ELSE LET payload == response.payload
             accessToken == OrElse(asString(Get(payload, "access_token")), "")
             newRefreshToken == OrElse(asString(Get(payload, "refresh_token")), refreshToken)
             raw == Get(payload, "expires_in")
             expiresIn == IF Truthy(raw) THEN ToNumber(raw)
                          ELSE [finite |-> TRUE, n |-> DefaultExpiresIn]
             accountId == OrElse(extractAccountId(asString(Get(payload, "id_token"))),
                                 OrElse(extractAccountId(accessToken),
                                        e.CHATGPT_ACCOUNT_ID))
         IN  Success(TokenState(accessToken, newRefreshToken,
                                t + safeLifetime(expiresIn) * 1000, accountId))

\* server: what refreshAccessToken(refreshToken) does with the token endpoint's
\* response when it is processed at time t: the TokenState it installs, or the
\* error it throws
refreshAccessToken(refreshToken, response, t, e) ==
    IF response.kind = "reject"
    THEN Failure("TypeError: fetch failed")
    ELSE IF ~responseOk(response)
    THEN Failure("Error: token refresh failed: " \o ToString(response.status)
                                                \o " " \o response.text)
    ELSE LET payload == response.payload
             accessToken == asString(Get(payload, "access_token"))
             newRefreshToken == OrElse(asString(Get(payload, "refresh_token")), refreshToken)
             raw == Get(payload, "expires_in")
             expiresIn == IF Truthy(raw) THEN ToNumber(raw)
                          ELSE [finite |-> TRUE, n |-> DefaultExpiresIn]
             safeExpiresIn == safeLifetime(expiresIn)
             accountId == OrElse(extractAccountId(asString(Get(payload, "id_token"))),
                                 OrElse(extractAccountId(accessToken),
                                        e.CHATGPT_ACCOUNT_ID))
         IN  IF accessToken = undefined \/ accessToken = ""
             THEN Failure("Error: token refresh failed: missing access_token")
             ELSE Success(TokenState(accessToken, newRefreshToken,
                                     t + safeExpiresIn * 1000, accountId))

\* worker: the same for refreshAndCacheTokens(env, refreshToken)
refreshAndCacheTokens(refreshToken, response, t, e) ==
    IF response.kind = "reject"
    THEN Failure("TypeError: fetch failed")
    ELSE IF ~responseOk(response)
    THEN Failure("Error: Token refresh failed: " \o ToString(response.status)
                                                \o " " \o response.text)
    ELSE LET payload == response.payload
             accessToken == asString(Get(payload, "access_token"))
             newRefreshToken == Coalesce(asString(Get(payload, "refresh_token")), refreshToken)
             raw == Get(payload, "expires_in")
             expiresInSec == IF raw.t = "number" THEN ToNumber(raw)
                             ELSE StringToNumber(Coalesce(asString(raw), "3600"))
             safeExpiresInSec == safeLifetime(expiresInSec)
             accountId == Coalesce(extractAccountId(asString(Get(payload, "id_token"))),
                                   Coalesce(extractAccountId(accessToken),
                                            e.CHATGPT_ACCOUNT_ID))
         IN  IF accessToken = undefined \/ accessToken = ""
             THEN Failure("Error: Token refresh failed: missing access_token")
             ELSE Success(TokenState(accessToken, newRefreshToken,
                                     t + safeExpiresInSec * 1000, accountId))

\* server getValidToken: TRUE when the stored state is returned without a refresh
\* a variant that still trusts a token expiring in exactly the window
tokenIsFresh_inclusive(ts, t) == ts.accessToken # "" /\ ts.expiresAt >= t + ExpiryWindowMs

tokenIsFresh(ts, t) == ts.accessToken # "" /\ ts.expiresAt > t + ExpiryWindowMs

\* worker getValidToken: the same test on the KV entry
cachedIsFresh(kv, t) == kv # <<>> /\ kv[1].expiresAt > t + ExpiryWindowMs

\* worker getValidToken: the refresh token it presents
cachedRefreshToken(kv, e) ==
    IF kv # <<>> /\ kv[1].refreshToken # "" THEN kv[1].refreshToken
    ELSE e.OPENAI_REFRESH_TOKEN

(***************************************************************************)
(* Strings as sequences of one-character strings.                          *)
(***************************************************************************)
IsSpace(c) == c \in {" ", "\t"}

RECURSIVE trimStart(_)
trimStart(s) == IF s # <<>> /\ IsSpace(Head(s)) THEN trimStart(Tail(s)) ELSE s

RECURSIVE trimEnd(_)
trimEnd(s) ==
    IF s # <<>> /\ IsSpace(s[Len(s)]) THEN trimEnd(SubSeq(s, 1, Len(s) - 1)) ELSE s

trim(s) == trimEnd(trimStart(s))

UpperCase == <<
    "A", "B", "C", "D", "E", "F", "G", "H", "I", "J", "K", "L", "M",
    "N", "O", "P", "Q", "R", "S", "T", "U", "V", "W", "X", "Y", "Z" >>

LowerCase == <<
    "a", "b", "c", "d", "e", "f", "g", "h", "i", "j", "k", "l", "m",
    "n", "o", "p", "q", "r", "s", "t", "u", "v", "w", "x", "y", "z" >>

toLowerCaseChar(c) ==
    IF \E i \in 1..26 : UpperCase[i] = c
    THEN LowerCase[CHOOSE i \in 1..26 : UpperCase[i] = c]
    ELSE c

toLowerCase(s) == [i \in 1..Len(s) |-> toLowerCaseChar(s[i])]

\* s.replace(/^q|q$/g, ""): one leading q and one trailing q are removed
stripQuote(s, q) ==
    LET a == IF s # <<>> /\ Head(s) = q THEN Tail(s) ELSE s
    IN  IF a # <<>> /\ a[Len(a)] = q THEN SubSeq(a, 1, Len(a) - 1) ELSE a

\* s.match(/^<scheme>\s+(.+)$/i) on a trimmed s: whether it matches, and group 1
matchScheme(s, scheme) ==
    LET n == Len(scheme)
        hit == /\ Len(s) > n + 1
               /\ toLowerCase(SubSeq(s, 1, n)) = toLowerCase(scheme)
               /\ IsSpace(s[n + 1])
               /\ trimStart(SubSeq(s, n + 1, Len(s))) # <<>>
    IN  [match |-> hit,
         group |-> IF hit THEN trimStart(SubSeq(s, n + 1, Len(s))) ELSE <<>>]

Base64Alphabet == <<
    "A", "B", "C", "D", "E", "F", "G", "H", "I", "J", "K", "L", "M", "N", "O", "P",
    "Q", "R", "S", "T", "U", "V", "W", "X", "Y", "Z", "a", "b", "c", "d", "e", "f",
    "g", "h", "i", "j", "k", "l", "m", "n", "o", "p", "q", "r", "s", "t", "u", "v",
    "w", "x", "y", "z", "0", "1", "2", "3", "4", "5", "6", "7", "8", "9", "+", "/" >>

\* the printable ASCII characters, from code 32 to code 126 (code 96 is spelled out)
Ascii == <<
    " ", "!", "\"", "#", "$", "%", "&", "'", "(", ")", "*", "+", ",", "-", ".", "/",
    "0", "1", "2", "3", "4", "5", "6", "7", "8", "9", ":", ";", "<", "=", ">", "?",
    "@", "A", "B", "C", "D", "E", "F", "G", "H", "I", "J", "K", "L", "M", "N", "O",
    "P", "Q", "R", "S", "T", "U", "V", "W", "X", "Y", "Z", "[", "\\", "]", "^", "_",
    "<grave>", "a", "b", "c", "d", "e", "f", "g", "h", "i", "j", "k", "l", "m", "n", "o",
    "p", "q", "r", "s", "t", "u", "v", "w", "x", "y", "z", "{", "|", "}", "~" >>

ReplacementChar == "<U+FFFD>"

isBase64Char(c) == c \in {"-", "_"} \/ \E i \in 1..64 : Base64Alphabet[i] = c

base64Value(c) ==
    CASE c = "-" -> 62
      [] c = "_" -> 63
      [] OTHER -> (CHOOSE i \in 1..64 : Base64Alphabet[i] = c) - 1

byteToChar(b) == IF b >= 32 /\ b <= 126 THEN Ascii[b - 31] ELSE ReplacementChar

\* the sextets of a base64 string: it ends at the first "=", and a character
\* outside the alphabet is skipped
RECURSIVE base64Sextets(_)
base64Sextets(s) ==
    IF s = <<>> \/ Head(s) = "=" THEN <<>>
    ELSE IF isBase64Char(Head(s)) THEN <<base64Value(Head(s))>> \o base64Sextets(Tail(s))
    ELSE base64Sextets(Tail(s))

RECURSIVE sextetsToBytes(_)
sextetsToBytes(v) ==
    IF Len(v) < 2 THEN <<>>
    ELSE IF Len(v) = 2 THEN <<v[1] * 4 + v[2] \div 16>>
    ELSE IF Len(v) = 3 THEN <<v[1] * 4 + v[2] \div 16, (v[2] % 16) * 16 + v[3] \div 4>>
    ELSE <<v[1] * 4 + v[2] \div 16, (v[2] % 16) * 16 + v[3] \div 4, (v[3] % 4) * 64 + v[4]>>
         \o sextetsToBytes(SubSeq(v, 5, Len(v)))

\* Buffer.from(s, "base64").toString("utf8")
base64Decode(s) ==
    LET bytes == sextetsToBytes(base64Sextets(s))
    IN  [i \in 1..Len(bytes) |-> byteToChar(bytes[i])]

\* s.split(sep): the fields of s
RECURSIVE split(_, _)
split(s, sep) ==
    IF \A i \in 1..Len(s) : s[i] # sep THEN <<s>>
    ELSE LET k == CHOOSE i \in 1..Len(s) : s[i] = sep /\ \A j \in 1..(i - 1) : s[j] # sep
         IN  <<SubSeq(s, 1, k - 1)>> \o split(SubSeq(s, k + 1, Len(s)), sep)

(***************************************************************************)
(* Caller authentication (server).  A header is [present, value]: present  *)
(* is FALSE when the request does not carry it.                            *)
(***************************************************************************)
NoHeader == [present |-> FALSE, value |-> <<>>]

Header(v) == [present |-> TRUE, value |-> v]

normalizeSecretValue(h) ==
    IF ~h.present THEN <<>>
    ELSE stripQuote(stripQuote(trim(h.value), "\""), "'")

\* authHeader.split(/\s+/, 1)[0]: what stands before the first whitespace
firstWord(s) ==
    LET spaces == {i \in 1..Len(s) : IsSpace(s[i])}
    IN  IF spaces = {} THEN s
        ELSE SubSeq(s, 1, (CHOOSE i \in spaces : \A j \in spaces : i <= j) - 1)

\* a variant that reports whether a scheme was given instead of its text
authSchemeOf_redacted(authHeader) ==
    IF authHeader = <<>> THEN <<"n", "o", "n", "e">>
    ELSE <<"g", "i", "v", "e", "n">>

\* lines 276-280: the authScheme of the diagnostic
authSchemeOf(authHeader) ==
    IF authHeader = <<>> THEN <<"n", "o", "n", "e">>
    ELSE IF firstWord(authHeader) = <<>> THEN <<"u", "n", "k", "n", "o", "w", "n">>
    ELSE firstWord(authHeader)

\* server: getAuthDebugInfo(req), the object the unauthorized branch logs.  The
\* requests of the model carry no User-Agent header
getAuthDebugInfo(headers) ==
    LET authHeader == IF headers.authorization.present THEN trim(headers.authorization.value)
                      ELSE <<>>
        xApiKey == IF headers.x_api_key.present THEN trim(headers.x_api_key.value) ELSE <<>>
        apiKey == IF headers.api_key.present THEN trim(headers.api_key.value) ELSE <<>>
    IN  [authScheme |-> authSchemeOf(authHeader),
         authHeaderLength |-> Len(authHeader),
         xApiKeyLength |-> Len(xApiKey),
         apiKeyLength |-> Len(apiKey),
         userAgent |-> <<>>]

\* a variant that knows the Bearer form only
validateProxyAuth_bearerOnly(headers, secret) ==
    LET bearer == matchScheme(trim(headers.authorization.value), <<"B", "e", "a", "r", "e", "r">>)
    IN  /\ headers.authorization.present
        /\ bearer.match
        /\ normalizeSecretValue(Header(bearer.group)) = secret

validateProxyAuth(headers, secret) ==
    LET authHeader == headers.authorization
        trimmed == trim(authHeader.value)
        bearer == matchScheme(trimmed, <<"B", "e", "a", "r", "e", "r">>)
        basic == matchScheme(trimmed, <<"B", "a", "s", "i", "c">>)
        parts == split(base64Decode(basic.group), ":")
        user == parts[1]
        pass == IF Len(parts) >= 2 THEN parts[2] ELSE <<>>
    IN  \/ /\ authHeader.present
           /\ Len(trimmed) > 0
           /\ \/ normalizeSecretValue(Header(trimmed)) = secret
              \/ bearer.match /\ normalizeSecretValue(Header(bearer.group)) = secret
              \/ /\ basic.match
                 /\ \/ normalizeSecretValue(Header(user)) = secret
                    \/ normalizeSecretValue(Header(pass)) = secret
        \/ headers.x_api_key.present /\ normalizeSecretValue(headers.x_api_key) = secret
        \/ headers.api_key.present /\ normalizeSecretValue(headers.api_key) = secret

\* worker: validateProxyAuth(request, env); Headers.get trims the value
validateProxyAuth_worker(headers, secret) ==
    LET authorization == trim(headers.authorization.value)
        parts == split(authorization, " ")
    IN  \/ /\ headers.authorization.present
           /\ authorization # <<>>
           /\ parts[1] = <<"B", "e", "a", "r", "e", "r">>
           /\ Len(parts) >= 2
           /\ parts[2] = secret
        \/ headers.x_api_key.present /\ trim(headers.x_api_key.value) = secret

(***************************************************************************)
(* SSE aggregator (server).  An SSE text is the sequence of its lines      *)
(* (text.split(/\r?\n/), each trimmed at the end).  A line is              *)
(*   [kind |-> "blank"]                      an empty line,                *)
(*   [kind |-> "event", label |-> l]         "event:" and the trimmed rest,*)
(*   [kind |-> "data", payload |-> p]        "data:" and the trimmed rest, *)
(*   [kind |-> "other"]                      any other line,               *)
(* and a payload is [empty, ok, value]: whether the rest is empty, whether *)
(* JSON.parse accepts it, and the value it yields.                         *)
(***************************************************************************)
BlankLine == [kind |-> "blank", label |-> "", payload |-> [empty |-> TRUE, ok |-> FALSE, value |-> JNull]]

OtherLine == [kind |-> "other", label |-> "", payload |-> [empty |-> TRUE, ok |-> FALSE, value |-> JNull]]

EventLine(l) == [kind |-> "event", label |-> l, payload |-> [empty |-> TRUE, ok |-> FALSE, value |-> JNull]]

DataLine(j) == [kind |-> "data", label |-> "", payload |-> [empty |-> FALSE, ok |-> TRUE, value |-> j]]

EmptyDataLine == [kind |-> "data", label |-> "", payload |-> [empty |-> TRUE, ok |-> FALSE, value |-> JNull]]

MalformedDataLine == [kind |-> "data", label |-> "", payload |-> [empty |-> FALSE, ok |-> FALSE, value |-> JNull]]

RECURSIVE parseSSEFrom(_, _)
parseSSEFrom(lines, currentEvent) ==
    IF lines = <<>> THEN <<>>
    ELSE LET line == Head(lines)
         IN  CASE line.kind = "blank" -> parseSSEFrom(Tail(lines), currentEvent)
               [] line.kind = "event" -> parseSSEFrom(Tail(lines), line.label)
               [] line.kind = "data" /\ ~line.payload.empty /\ line.payload.ok ->
                      <<[event |-> currentEvent, data |-> line.payload.value]>>
                          \o parseSSEFrom(Tail(lines), currentEvent)
               [] OTHER -> parseSSEFrom(Tail(lines), currentEvent)

\* a variant that forgets the label at a blank line
RECURSIVE parseSSEFrom_resetOnBlank(_, _)
parseSSEFrom_resetOnBlank(lines, currentEvent) ==
    IF lines = <<>> THEN <<>>
    ELSE LET line == Head(lines)
         IN  CASE line.kind = "blank" -> parseSSEFrom_resetOnBlank(Tail(lines), "message")
               [] line.kind = "event" -> parseSSEFrom_resetOnBlank(Tail(lines), line.label)
               [] line.kind = "data" /\ ~line.payload.empty /\ line.payload.ok ->
                      <<[event |-> currentEvent, data |-> line.payload.value]>>
                          \o parseSSEFrom_resetOnBlank(Tail(lines), currentEvent)
               [] OTHER -> parseSSEFrom_resetOnBlank(Tail(lines), currentEvent)

parseSSE_resetOnBlank(text) == parseSSEFrom_resetOnBlank(text, "message")

\* server: parseSSE(text)
parseSSE(text) == parseSSEFrom(text, "message")

\* a variant whose done event replaces what the deltas have accumulated
foldEvent_doneOverwrites(acc, data) ==
    IF ~isObject(data) THEN acc
    ELSE LET type == Field(data, "type")
             a1 == IF type = JStr("error") /\ isObject(Field(data, "error"))
                   THEN [acc EXCEPT !.error = Field(data, "error")] ELSE acc
             a2 == IF type = JStr("response.output_text.delta")
                      /\ Field(data, "delta").t = "string"
                   THEN [a1 EXCEPT !.outputText = @ \o Field(data, "delta").v] ELSE a1
             a3 == IF type = JStr("response.output_text.done")
                      /\ Field(data, "text").t = "string"
                   THEN [a2 EXCEPT !.outputText = Field(data, "text").v] ELSE a2
             a4 == IF type = JStr("response.completed") /\ isObject(Field(data, "response"))
                   THEN [a3 EXCEPT !.completed = Field(data, "response")] ELSE a3
             a5 == IF type = JStr("response.failed") /\ isObject(Field(data, "response"))
                   THEN [a4 EXCEPT !.completed = Field(data, "response"),
                                   !.error = IF a4.error = JNull
                                                /\ isObject(Field(Field(data, "response"), "error"))
                                             THEN Field(Field(data, "response"), "error")
                                             ELSE @]
                   ELSE a4
         IN  a5

\* a variant whose failed event replaces an error already recorded
foldEvent_failedOverwrites(acc, data) ==
    IF ~isObject(data) THEN acc
    ELSE LET type == Field(data, "type")
             a1 == IF type = JStr("error") /\ isObject(Field(data, "error"))
                   THEN [acc EXCEPT !.error = Field(data, "error")] ELSE acc
             a2 == IF type = JStr("response.output_text.delta")
                      /\ Field(data, "delta").t = "string"
                   THEN [a1 EXCEPT !.outputText = @ \o Field(data, "delta").v] ELSE a1
             a3 == IF type = JStr("response.output_text.done")
                      /\ Field(data, "text").t = "string" /\ a2.outputText = ""
                   THEN [a2 EXCEPT !.outputText = Field(data, "text").v] ELSE a2
             a4 == IF type = JStr("response.completed") /\ isObject(Field(data, "response"))
                   THEN [a3 EXCEPT !.completed = Field(data, "response")] ELSE a3
             a5 == IF type = JStr("response.failed") /\ isObject(Field(data, "response"))
                   THEN [a4 EXCEPT !.completed = Field(data, "response"),
                                   !.error = IF isObject(Field(Field(data, "response"), "error"))
                                             THEN Field(Field(data, "response"), "error")
                                             ELSE @]
                   ELSE a4
         IN  a5

\* a variant in which an error event yields to an error already recorded
foldEvent_errorFirstWins(acc, data) ==
    IF ~isObject(data) THEN acc
    ELSE LET type == Field(data, "type")
             a1 == IF type = JStr("error") /\ isObject(Field(data, "error"))
                      /\ acc.error = JNull
                   THEN [acc EXCEPT !.error = Field(data, "error")] ELSE acc
             a2 == IF type = JStr("response.output_text.delta")
                      /\ Field(data, "delta").t = "string"
                   THEN [a1 EXCEPT !.outputText = @ \o Field(data, "delta").v] ELSE a1
             a3 == IF type = JStr("response.output_text.done")
                      /\ Field(data, "text").t = "string" /\ a2.outputText = ""
                   THEN [a2 EXCEPT !.outputText = Field(data, "text").v] ELSE a2
             a4 == IF type = JStr("response.completed") /\ isObject(Field(data, "response"))
                   THEN [a3 EXCEPT !.completed = Field(data, "response")] ELSE a3
             a5 == IF type = JStr("response.failed") /\ isObject(Field(data, "response"))
                   THEN [a4 EXCEPT !.completed = Field(data, "response"),
                                   !.error = IF a4.error = JNull
                                                /\ isObject(Field(Field(data, "response"), "error"))
                                             THEN Field(Field(data, "response"), "error")
                                             ELSE @]
                   ELSE a4
         IN  a5

\* one turn of the loop of buildNonStreamResponseFromSSE
foldEvent(acc, data) ==
    IF ~isObject(data) THEN acc
    ELSE LET type == Field(data, "type")
             a1 == IF type = JStr("error") /\ isObject(Field(data, "error"))
                   THEN [acc EXCEPT !.error = Field(data, "error")] ELSE acc
             a2 == IF type = JStr("response.output_text.delta")
                      /\ Field(data, "delta").t = "string"
                   THEN [a1 EXCEPT !.outputText = @ \o Field(data, "delta").v] ELSE a1
             a3 == IF type = JStr("response.output_text.done")
                      /\ Field(data, "text").t = "string" /\ a2.outputText = ""
                   THEN [a2 EXCEPT !.outputText = Field(data, "text").v] ELSE a2
             a4 == IF type = JStr("response.completed") /\ isObject(Field(data, "response"))
                   THEN [a3 EXCEPT !.completed = Field(data, "response")] ELSE a3
             a5 == IF type = JStr("response.failed") /\ isObject(Field(data, "response"))
                   THEN [a4 EXCEPT !.completed = Field(data, "response"),
                                   !.error = IF a4.error = JNull
                                                /\ isObject(Field(Field(data, "response"), "error"))
                                             THEN Field(Field(data, "response"), "error")
                                             ELSE @]
                   ELSE a4
         IN  a5

RECURSIVE foldEvents(_, _)
foldEvents(acc, events) ==
    IF events = <<>> THEN acc
    ELSE foldEvents(foldEvent(acc, Head(events).data), Tail(events))

buildNonStreamResponseFromSSE(sseText) ==
    LET events == parseSSE(sseText)
    IN  foldEvents([completed |-> JNull, error |-> JNull, outputText |-> "",
                    eventCount |-> Len(events)], events)

(***************************************************************************)
(* Responses.  A reply is [status, contentType, body]; the body is a JSON  *)
(* value (sendJson), a text (sendText, the worker's passthrough) or the    *)
(* upstream's body piped through.                                          *)
(***************************************************************************)
NoReply == [status |-> 0, contentType |-> "", body |-> JUndef]

sendJson(status, data) ==
    [status |-> status, contentType |-> "application/json", body |-> JObj(data)]

sendText(status, text) ==
    [status |-> status, contentType |-> "text/plain; charset=utf-8", body |-> JStr(text)]

RawText(sseText) == [t |-> "text", v |-> sseText]

\* { ...obj, output_text: text }
spreadWithOutputText(obj, text) ==
    LET base == IF obj.t = "object" THEN obj.v
                ELSE [k \in {ToString(i - 1) : i \in 1..Len(obj.v)} |->
                         obj.v[CHOOSE i \in 1..Len(obj.v) : ToString(i - 1) = k]]
    IN  [k \in DOMAIN base \cup {"output_text"} |->
            IF k = "output_text" THEN JStr(text) ELSE base[k]]

\* a variant that looks for the completed result first
nonStreamReply_completedFirst(upstreamStatus, sseText) ==
    LET parsed == buildNonStreamResponseFromSSE(sseText)
    IN  IF parsed.completed # JNull
        THEN sendJson(200, spreadWithOutputText(parsed.completed, parsed.outputText))
        ELSE IF parsed.error # JNull
        THEN sendJson(400, [error |-> parsed.error, output_text |-> JStr(parsed.outputText)])
        ELSE sendJson(upstreamStatus,
                      [status |-> JStr("unknown_upstream_response"),
                       event_count |-> JNum(parsed.eventCount),
                       raw |-> RawText(sseText)])

\* server: the reply to a request that did not ask for a stream
nonStreamReply(upstreamStatus, sseText) ==
    LET parsed == buildNonStreamResponseFromSSE(sseText)
    IN  IF parsed.error # JNull
        THEN sendJson(400, [error |-> parsed.error, output_text |-> JStr(parsed.outputText)])
        ELSE IF parsed.completed # JNull
        THEN sendJson(200, spreadWithOutputText(parsed.completed, parsed.outputText))
        ELSE sendJson(upstreamStatus,
                      [status |-> JStr("unknown_upstream_response"),
                       event_count |-> JNum(parsed.eventCount),
                       raw |-> RawText(sseText)])

(***************************************************************************)
(* Request normalizer.  The strings of a request body are sequences of     *)
(* characters.                                                             *)
(***************************************************************************)
DEFAULT_MODEL_ALIAS == <<"g", "p", "t", "-", "5", ".", "3", "-", "c", "o", "d", "e", "x", "-", "h", "i", "g", "h">>

DEFAULT_UPSTREAM_MODEL == <<"g", "p", "t", "-", "5", ".", "3", "-", "c", "o", "d", "e", "x">>

DEFAULT_REASONING_EFFORT == <<"h", "i", "g", "h">>

DEFAULT_INSTRUCTIONS ==
    <<"Y", "o", "u", " ", "a", "r", "e", " ", "C", "o", "d", "e", "x", ",", " ", "a", " ", "c", "o", "d", "i", "n", "g", " ", "a", "g", "e", "n", "t", " ", "b", "a", "s", "e", "d", " ", "o", "n", " ", "G", "P", "T", "-", "5", ".", " ", "F", "o">>
    \o <<"l", "l", "o", "w", " ", "t", "h", "e", " ", "u", "s", "e", "r", " ", "r", "e", "q", "u", "e", "s", "t", " ", "a", "n", "d", " ", "k", "e", "e", "p", " ", "r", "e", "s", "p", "o", "n", "s", "e", "s", " ", "c", "o", "n", "c", "i", "s", "e", ".">>

highAliases ==
    { <<"g", "p", "t", "-", "5", ".", "3", "-", "c", "o", "d", "e", "x", "-", "h", "i", "g", "h">>,
      <<"g", "p", "t", "-", "5", ".", "3", "-", "c", "o", "d", "e", "x", ":", "h", "i", "g", "h">>,
      <<"g", "p", "t", "-", "5", ".", "3", "-", "c", "o", "d", "e", "x", "-", "h", "i", "g", "h", "-", "r", "e", "a", "s", "o", "n", "i", "n", "g">>,
      <<"c", "o", "d", "e", "x", "-", "5", ".", "3", "-", "h", "i", "g", "h">> }

S_message == <<"m", "e", "s", "s", "a", "g", "e">>

S_user == <<"u", "s", "e", "r">>

S_input_text == <<"i", "n", "p", "u", "t", "_", "t", "e", "x", "t">>

S_Hello == <<"H", "e", "l", "l", "o">>

S_auto == <<"a", "u", "t", "o">>

\* { ...j } for an object or an array
spread(j) ==
    CASE j.t = "object" -> j.v
      [] j.t = "array" -> [k \in {ToString(i - 1) : i \in 1..Len(j.v)} |->
                              j.v[CHOOSE i \in 1..Len(j.v) : ToString(i - 1) = k]]
      [] OTHER -> [k \in {} |-> JUndef]

\* asString(j)?.trim().toLowerCase(), the empty string when j is no string
trimmedLower(j) == IF j.t = "string" THEN toLowerCase(trim(j.v)) ELSE <<>>

\* a variant that knows no alias
normalizeCodexModel_noAlias(model) == toLowerCase(trim(model))

\* server: normalizeCodexModel(model)
normalizeCodexModel(model) ==
    LET requested == toLowerCase(trim(model))
    IN  IF requested = <<>> THEN DEFAULT_UPSTREAM_MODEL
        ELSE IF requested \in highAliases THEN DEFAULT_UPSTREAM_MODEL
        ELSE requested

inputMessage(role, text) ==
    JObj([type |-> JStr(S_message),
          role |-> JStr(role),
          content |-> JArr(<<JObj([type |-> JStr(S_input_text), text |-> JStr(text)])>>)])

textToInputMessage(text) == inputMessage(S_user, text)

RECURSIVE convertMessages(_)
convertMessages(messages) ==
    IF messages = <<>> THEN <<>>
    ELSE LET message == Head(messages)
             r == Field(message, "role")
             role == IF r.t = "string" /\ r.v # <<>> THEN r.v ELSE S_user
         IN  IF ~isObject(message) \/ Field(message, "content").t # "string"
             THEN convertMessages(Tail(messages))
             ELSE <<inputMessage(role, Field(message, "content").v)>>
                      \o convertMessages(Tail(messages))

\* a variant that looks at the messages before the string input
normalizeInput_messagesFirst(body) ==
    LET input == Get(body, "input")
        messages == Get(body, "messages")
        converted == IF messages.t = "array" THEN convertMessages(messages.v) ELSE <<>>
    IN  IF input.t = "array" THEN input
        ELSE IF converted # <<>> THEN JArr(converted)
        ELSE IF input.t = "string" /\ input.v # <<>> /\ trim(input.v) # <<>>
        THEN JArr(<<textToInputMessage(input.v)>>)
        ELSE JArr(<<textToInputMessage(S_Hello)>>)

\* server: normalizeInput(body)
normalizeInput(body) ==
    LET input == Get(body, "input")
        messages == Get(body, "messages")
        converted == IF messages.t = "array" THEN convertMessages(messages.v) ELSE <<>>
    IN  IF input.t = "array" THEN input
        ELSE IF input.t = "string" /\ input.v # <<>> /\ trim(input.v) # <<>>
        THEN JArr(<<textToInputMessage(input.v)>>)
        ELSE IF converted # <<>> THEN JArr(converted)
        ELSE JArr(<<textToInputMessage(S_Hello)>>)

\* a variant whose default effort follows the model name
normalizeReasoning_byModel(body, requestedModel) ==
    LET reasoning == Get(body, "reasoning")
        effort == IF isObject(reasoning) THEN Field(reasoning, "effort") ELSE JUndef
        explicit == IF effort.t = "string" THEN toLowerCase(effort.v) ELSE <<>>
    IN  IF explicit # <<>> THEN JObj([effort |-> JStr(explicit)])
        ELSE IF requestedModel \in highAliases
        THEN JObj([effort |-> JStr(DEFAULT_REASONING_EFFORT)])
        ELSE JObj([effort |-> JStr(<<"m", "e", "d", "i", "u", "m">>)])

\* server: normalizeReasoning(body, requestedModel)
normalizeReasoning(body, requestedModel) ==
    LET reasoning == Get(body, "reasoning")
        effort == IF isObject(reasoning) THEN Field(reasoning, "effort") ELSE JUndef
        explicit == IF effort.t = "string" THEN toLowerCase(effort.v) ELSE <<>>
    IN  IF explicit # <<>> THEN JObj([effort |-> JStr(explicit)])
        ELSE JObj([effort |-> JStr(DEFAULT_REASONING_EFFORT)])

isStringArray(j) == j.t = "array" /\ \A i \in 1..Len(j.v) : j.v[i].t = "string"

NormalizedKeys ==
    {"model", "instructions", "input", "reasoning", "tools", "tool_choice",
     "parallel_tool_calls", "include", "store", "stream"}

\* server: normalizeRequestBody(raw)
normalizeRequestBody(raw) ==
    LET body == IF isObject(raw) THEN spread(raw) ELSE [k \in {} |-> JUndef]
        requestedModel == IF trimmedLower(Get(body, "model")) # <<>>
                          THEN trimmedLower(Get(body, "model"))
                          ELSE DEFAULT_MODEL_ALIAS
        instructions == IF Get(body, "instructions").t = "string"
                           /\ trim(Get(body, "instructions").v) # <<>>
                        THEN trim(Get(body, "instructions").v)
                        ELSE DEFAULT_INSTRUCTIONS
        toolChoice == IF Get(body, "tool_choice").t = "string" /\ Get(body, "tool_choice").v # <<>>
                      THEN Get(body, "tool_choice").v ELSE S_auto
        set == [model |-> JStr(normalizeCodexModel(requestedModel)),
                instructions |-> JStr(instructions),
                input |-> normalizeInput(body),
                reasoning |-> normalizeReasoning(body, requestedModel),
                tools |-> IF Get(body, "tools").t = "array" THEN Get(body, "tools") ELSE JArr(<<>>),
                tool_choice |-> JStr(toolChoice),
                parallel_tool_calls |-> IF Get(body, "parallel_tool_calls").t = "boolean"
                                        THEN Get(body, "parallel_tool_calls") ELSE JBool(TRUE),
                include |-> IF isStringArray(Get(body, "include")) THEN Get(body, "include")
                            ELSE JArr(<<>>),
                store |-> JBool(FALSE),
                stream |-> JBool(TRUE)]
    IN  [k \in DOMAIN body \cup NormalizedKeys |-> IF k \in NormalizedKeys THEN set[k] ELSE body[k]]

DEFAULT_MODEL == <<"g", "p", "t", "-", "5", ".", "3", "-", "c", "o", "d", "e", "x">>

\* worker: normalizeRequestBody(raw)
normalizeRequestBody_worker(raw) ==
    LET body == IF isObject(raw) THEN spread(raw) ELSE [k \in {} |-> JUndef]
    IN  [k \in DOMAIN body \cup {"model", "store"} |->
            CASE k = "model" /\ ~Truthy(Get(body, "model")) -> JStr(DEFAULT_MODEL)
              [] k = "store" /\ Get(body, "store").t = "undefined" -> JBool(FALSE)
              [] OTHER -> body[k]]

(***************************************************************************)
(* The environment's inputs.  Each workload offers its own sets: the       *)
(* "concurrent" workload runs NReq requests against few inputs, the others *)
(* run one request against many: "single" many of every kind, "auth" many  *)
(* headers, "normalize" many request bodies, "sse" many upstream answers,  *)
(* "refresh" many answers of the token endpoint, "routing" every method on *)
(* every path.                                                             *)
(***************************************************************************)
AllReqs == 1..NReq

Active(w) == IF w = "concurrent" THEN AllReqs ELSE {1}

\* the workloads that keep the inputs behind the authorization check few
Narrow(w) == w # "single"

S_abc123 == <<"a", "b", "c", "1", "2", "3">>

S_Bearer_abc123 == <<"B", "e", "a", "r", "e", "r", " ", "a", "b", "c", "1", "2", "3">>

S_hi == <<"h", "i">>

Envs(w) ==
    [OPENAI_ACCESS_TOKEN : IF w = "auth" THEN {"at0"}
                            ELSE IF w = "single" THEN {"", "at0", "at2"}
                            ELSE IF w = "routing" THEN {"", "at0", "at4"}
                            ELSE {"", "at0"},
     OPENAI_REFRESH_TOKEN : {"rt0"},
     CHATGPT_ACCOUNT_ID : IF w = "refresh" THEN {"acct-env", undefined} ELSE {"acct-env"},
     PROXY_SECRET : {S_abc123}]

Headers(a, x, k) == [authorization |-> a, x_api_key |-> x, api_key |-> k]

\* header values of the "auth" workload: the secret bare, padded, quoted, in the
\* wrong case and too long; Bearer in another case, quoted, wrong and empty; Basic of
\* user:abc123, abc123:pass, u:abc123:x, user:wrong and abc123; another scheme; ""
A_bare == <<"a", "b", "c", "1", "2", "3">>

A_spaced == <<" ", " ", "a", "b", "c", "1", "2", "3", " ">>

A_dquoted == <<"\"", "a", "b", "c", "1", "2", "3", "\"">>

A_squoted == <<"'", "a", "b", "c", "1", "2", "3", "'">>

A_upper == <<"A", "B", "C", "1", "2", "3">>

A_longer == <<"a", "b", "c", "1", "2", "3", "4">>

A_bearer_lower == <<"b", "e", "a", "r", "e", "r", " ", " ", " ", "a", "b", "c", "1", "2", "3">>

A_bearer_quoted == <<"B", "e", "a", "r", "e", "r", " ", "\"", "a", "b", "c", "1", "2", "3", "\"">>

A_bearer_wrong == <<"B", "e", "a", "r", "e", "r", " ", "w", "r", "o", "n", "g">>

A_bearer_only == <<"B", "e", "a", "r", "e", "r">>

A_basic_user_secret == <<"B", "a", "s", "i", "c", " ", "d", "X", "N", "l", "c", "j", "p", "h", "Y", "m", "M", "x", "M", "j", "M", "=">>

A_basic_secret_pass == <<"B", "a", "s", "i", "c", " ", "Y", "W", "J", "j", "M", "T", "I", "z", "O", "n", "B", "h", "c", "3", "M", "=">>

A_basic_three == <<"B", "a", "s", "i", "c", " ", "d", "T", "p", "h", "Y", "m", "M", "x", "M", "j", "M", "6", "e", "A", "=", "=">>

A_basic_wrong == <<"B", "a", "s", "i", "c", " ", "d", "X", "N", "l", "c", "j", "p", "3", "c", "m", "9", "u", "Z", "w", "=", "=">>

A_basic_nocolon == <<"B", "a", "s", "i", "c", " ", "Y", "W", "J", "j", "M", "T", "I", "z">>

A_token == <<"T", "o", "k", "e", "n", " ", "a", "b", "c", "1", "2", "3">>

A_empty == <<>>

K_wrong == <<"w", "r", "o", "n", "g">>

K_quoted == <<" ", "'", "a", "b", "c", "1", "2", "3", "'", " ">>

AuthorizationValues ==
    {NoHeader} \cup {Header(v) : v \in {S_Bearer_abc123, A_bare, A_spaced, A_dquoted, A_squoted, A_upper, A_longer,
                                       A_bearer_lower, A_bearer_quoted, A_bearer_wrong, A_bearer_only, A_basic_user_secret,
                                       A_basic_secret_pass, A_basic_three, A_basic_wrong, A_basic_nocolon, A_token, A_empty}}

HeaderSets(w) ==
    IF w \in {"concurrent", "normalize", "sse", "refresh"}
    THEN {Headers(Header(S_Bearer_abc123), NoHeader, NoHeader)}
    ELSE IF w \in {"single", "routing"}
    THEN {Headers(Header(S_Bearer_abc123), NoHeader, NoHeader),
          Headers(NoHeader, NoHeader, NoHeader)}
    ELSE {Headers(a, x, k) : a \in AuthorizationValues,
                             x \in {NoHeader, Header(S_abc123), Header(K_wrong), Header(K_quoted)},
                             k \in {NoHeader, Header(S_abc123), Header(K_wrong)}}

\* every method on every path of the interface and on one that is not
RoutedMethods == {"OPTIONS", "GET", "POST", "PUT", "DELETE"}

RoutedPaths ==
    {"/", "/health", "/v1/models", "/openai/v1/models", "/v1/responses",
     "/openai/v1/responses", "/v1/chat/completions"}

MethodPaths(w) ==
    IF w = "routing" THEN RoutedMethods \X RoutedPaths
    ELSE IF Narrow(w)
    THEN {<<"POST", "/v1/responses">>}
    ELSE {<<"POST", "/v1/responses">>, <<"GET", "/health">>}

\* readJsonBody's cap on the accumulated length of the chunks
MaxBodyBytes == 2 * 1024 * 1024

\* a variant that already refuses a body of exactly the cap
exceedsCap_inclusive(total) == total >= MaxBodyBytes

\* line 404: the test on the running total
exceedsCap(total) == total > MaxBodyBytes

\* the lengths a chunk of the request body can have
ChunkSizes(w) ==
    IF w = "routing" THEN {64, MaxBodyBytes + 1}
    ELSE IF Narrow(w) THEN {64}
    ELSE {64, MaxBodyBytes - 64, MaxBodyBytes, MaxBodyBytes + 1}

\* readJsonBody before its first chunk
NoBodyRead == [chunks |-> 0, total |-> 0]

\* JSON.parse(text || "{}") of a body without a byte
EmptyObject == JObj([k \in {} |-> JUndef])

\* a request body: the JSON value it parses to, or one that readJsonBody rejects
InvalidBody == [t |-> "invalid", v |-> 0]

\* a variant that lets every body through
parseRejects_never(rawBody) == FALSE

\* lines 412-417: JSON.parse throws and the read is rejected
parseRejects(rawBody) == rawBody = InvalidBody

Body_hi == JObj([input |-> JStr(S_hi), stream |-> JBool(FALSE)])

Body_stream == JObj([input |-> JStr(S_hi), stream |-> JBool(TRUE)])

\* raw bodies for the normalizer: every shape of input, messages, model,
\* reasoning, store and stream that normalizeRequestBody tells apart
NormalizeBodies ==
    {Body_stream,
     EmptyObject,
     JObj([input |-> JArr(<<>>)]),
     JObj([input |-> JArr(<<>>), messages |-> JArr(<<JObj([role |-> JStr(<<"s", "y", "s", "t", "e", "m">>), content |-> JStr(<<"b", "e", " ", "b", "r", "i", "e", "f">>)]), JObj([content |-> JStr(<<"h", "i">>)])>>)]),
     JObj([input |-> JArr(<<JObj([type |-> JStr(<<"m", "e", "s", "s", "a", "g", "e">>), role |-> JStr(<<"u", "s", "e", "r">>), content |-> JArr(<<JObj([type |-> JStr(<<"i", "n", "p", "u", "t", "_", "t", "e", "x", "t">>), text |-> JStr(<<"x">>)])>>)])>>), messages |-> JArr(<<JObj([role |-> JStr(<<"s", "y", "s", "t", "e", "m">>), content |-> JStr(<<"b", "e", " ", "b", "r", "i", "e", "f">>)]), JObj([content |-> JStr(<<"h", "i">>)])>>)]),
     JObj([input |-> JStr(<<>>)]),
     JObj([input |-> JStr(<<" ", " ">>)]),
     JObj([input |-> JStr(<<" ", " ">>), messages |-> JArr(<<JObj([role |-> JStr(<<"s", "y", "s", "t", "e", "m">>), content |-> JStr(<<"b", "e", " ", "b", "r", "i", "e", "f">>)]), JObj([content |-> JStr(<<"h", "i">>)])>>)]),
     JObj([input |-> JStr(<<" ", "h", "i", " ">>)]),
     JObj([input |-> JStr(<<"h", "i">>), messages |-> JArr(<<JObj([role |-> JStr(<<"s", "y", "s", "t", "e", "m">>), content |-> JStr(<<"b", "e", " ", "b", "r", "i", "e", "f">>)]), JObj([content |-> JStr(<<"h", "i">>)])>>)]),
     JObj([input |-> JNum(7), messages |-> JArr(<<JStr(<<"s", "t", "r">>), JObj([role |-> JStr(<<"a", "s", "s", "i", "s", "t", "a", "n", "t">>), content |-> JStr(<<"o", "k">>)]), JObj([role |-> JStr(<<"u", "s", "e", "r">>), content |-> JArr(<<JObj([type |-> JStr(<<"t", "e", "x", "t">>), text |-> JStr(<<"n", "o">>)])>>)]), JObj([role |-> JStr(<<>>), content |-> JStr(<<"h", "i">>)]), JObj([role |-> JNum(5), content |-> JStr(<<" ">>)]), JNull>>)]),
     JObj([messages |-> JArr(<<JObj([role |-> JStr(<<"u", "s", "e", "r">>), content |-> JNum(7)]), JObj([role |-> JStr(<<"u", "s", "e", "r">>)])>>)]),
     JObj([messages |-> JArr(<<>>)]),
     JObj([messages |-> JStr(<<"h", "i">>)]),
     JObj([model |-> JStr(<<" ", "G", "P", "T", "-", "5", ".", "3", "-", "C", "o", "d", "e", "x", "-", "H", "i", "g", "h", " ">>)]),
     JObj([model |-> JStr(<<"g", "p", "t", "-", "5", ".", "3", "-", "c", "o", "d", "e", "x", ":", "h", "i", "g", "h">>)]),
     JObj([model |-> JStr(<<"c", "o", "d", "e", "x", "-", "5", ".", "3", "-", "h", "i", "g", "h">>)]),
     JObj([model |-> JStr(<<"g", "p", "t", "-", "5", ".", "3", "-", "c", "o", "d", "e", "x", "-", "h", "i", "g", "h", "-", "r", "e", "a", "s", "o", "n", "i", "n", "g">>)]),
     JObj([model |-> JStr(<<>>)]),
     JObj([model |-> JStr(<<" ", " ">>)]),
     JObj([model |-> JNum(7)]),
     JObj([model |-> JStr(<<"g", "p", "t", "-", "4", "o">>)]),
     JObj([model |-> JStr(<<" ", "G", "P", "T", "-", "4", "o", " ">>)]),
     JObj([model |-> JStr(<<"o", "3", "-", "h", "i", "g", "h">>)]),
     JObj([model |-> JStr(<<"o", "3", "-", "h", "i", "g", "h">>), reasoning |-> JObj([effort |-> JStr(<<"L", "O", "W">>)])]),
     JObj([reasoning |-> JObj([effort |-> JStr(<<"M", "e", "d", "i", "u", "m">>)])]),
     JObj([reasoning |-> JObj([effort |-> JStr(<<>>)])]),
     JObj([reasoning |-> JObj([effort |-> JNum(3)])]),
     JObj([reasoning |-> JStr(<<"l", "o", "w">>)]),
     JObj([reasoning |-> EmptyObject]),
     JObj([model |-> JStr(<<"g", "p", "t", "-", "4", "o">>), reasoning |-> JObj([effort |-> JStr(<<"l", "o", "w">>)])]),
     JObj([store |-> JBool(TRUE), stream |-> JBool(FALSE)]),
     JObj([store |-> JBool(TRUE)]),
     JObj([stream |-> JBool(FALSE), input |-> JStr(<<"h", "i">>)]),
     JNull,
     JArr(<<JBool(TRUE)>>),
     JStr(<<"s", "t", "r", "e", "a", "m">>),
     JNum(7),
     JBool(TRUE)}

Bodies(w) ==
    IF w = "normalize" THEN NormalizeBodies
    ELSE IF w = "routing" THEN {Body_stream, InvalidBody}
    ELSE IF Narrow(w)
    THEN {Body_stream}
    ELSE {Body_hi, Body_stream, InvalidBody,
          JObj([input |-> JStr(S_hi)]),
          JObj([input |-> JStr(S_hi), stream |-> JStr(<<"t", "r", "u", "e">>)]),
          JObj([input |-> JStr(S_hi), stream |-> JNum(1)]),
          JObj([input |-> JStr(S_hi), stream |-> JNull]),
          JArr(<<JBool(TRUE)>>),
          JStr(<<"s", "t", "r", "e", "a", "m">>),
          JBool(TRUE),
          JNull}

\* what the token endpoint answers
IssuerReject == [kind |-> "reject", status |-> 0, text |-> "", payload |-> [k \in {} |-> JUndef]]

IssuerError(status, text) ==
    [kind |-> "http", status |-> status, text |-> text, payload |-> [k \in {} |-> JUndef]]

IssuerOk(payload) == [kind |-> "http", status |-> 200, text |-> "", payload |-> payload]

\* answers for the refresher: every shape of expires_in, refresh_token and
\* id_token next to access tokens with and without an account id
RefreshAnswers ==
    {IssuerReject,
     IssuerError(400, "invalid_grant"),
     IssuerOk([token_type |-> JStr("Bearer")]),
     IssuerOk([access_token |-> JStr(""), refresh_token |-> JStr("rt1")]),
     IssuerOk([access_token |-> JNum(7), refresh_token |-> JStr("rt1")]),
     IssuerOk([access_token |-> JStr("at1"), expires_in |-> JNum(61)]),
     IssuerOk([access_token |-> JStr("at1"), expires_in |-> JNum(7200),
               refresh_token |-> JStr("rt1"), id_token |-> JStr("id2")]),
     IssuerOk([access_token |-> JStr("at1"), refresh_token |-> JStr("rt2"),
               id_token |-> JStr("id1")]),
     IssuerOk([access_token |-> JStr("at2")]),
     IssuerOk([access_token |-> JStr("at2"), expires_in |-> JNum(0),
               id_token |-> JStr("id2")]),
     IssuerOk([access_token |-> JStr("at2"), expires_in |-> JNum(-5),
               refresh_token |-> JStr("")]),
     IssuerOk([access_token |-> JStr("at2"), expires_in |-> JInfinity,
               refresh_token |-> JNum(7), id_token |-> JNum(7)])}

IssuerResponses(w) ==
    IF w = "refresh" THEN RefreshAnswers ELSE
    {IssuerError(400, "invalid_grant"),
     IssuerOk([access_token |-> JStr("at1"), expires_in |-> JNum(61)]),
     IssuerOk([access_token |-> JStr("at2"), refresh_token |-> JStr("rt1"),
               id_token |-> JStr("id1")])}
    \cup IF Narrow(w) THEN {}
         ELSE {IssuerReject,
               IssuerError(500, "unavailable"),
               IssuerOk([token_type |-> JStr("Bearer")]),
               IssuerOk([access_token |-> JStr(""), refresh_token |-> JStr("rt1")]),
               IssuerOk([access_token |-> JNum(7)])}

\* what the upstream answers: fetch rejects, or a response with a status, a
\* content type and a body.  The body is a sequence of lines that arrive one by
\* one; reading it may fail after the last of them
UpstreamReject ==
    [kind |-> "reject", status |-> 0, contentType |-> "", text |-> <<>>, bodyFails |-> FALSE]

UpstreamResponse(status, text) ==
    [kind |-> "response", status |-> status, contentType |-> "text/event-stream", text |-> text,
     bodyFails |-> FALSE]

\* a response whose body breaks off after the lines of text
UpstreamBroken(status, text) == [UpstreamResponse(status, text) EXCEPT !.bodyFails = TRUE]

\* a response without a content-type header
UpstreamBare(status, text) == [UpstreamResponse(status, text) EXCEPT !.contentType = ""]

Ev_completed ==
    JObj([type |-> JStr("response.completed"),
          response |-> JObj([id |-> JStr("resp_1"), output_text |-> JStr("hi there")])])

Ev_error == JObj([type |-> JStr("error"), error |-> JObj([message |-> JStr("boom")])])

Ev_failed ==
    JObj([type |-> JStr("response.failed"),
          response |-> JObj([id |-> JStr("resp_2"),
                             error |-> JObj([message |-> JStr("quota")])])])

Ev_delta(d) == JObj([type |-> JStr("response.output_text.delta"), delta |-> JStr(d)])

Ev_done(d) == JObj([type |-> JStr("response.output_text.done"), text |-> JStr(d)])

Sse_completed == <<EventLine("response.completed"), DataLine(Ev_completed), BlankLine>>

Sse_deltas == <<DataLine(Ev_delta("Hello")), DataLine(Ev_delta(", world"))>>

\* a data line before any label, a label that outlives a blank line, lines that
\* carry no event between the events, and a second label
Sse_labelled ==
    <<DataLine(Ev_delta("a")), EventLine("response.output_text.delta"), BlankLine,
      DataLine(Ev_delta("b")), MalformedDataLine, EmptyDataLine, OtherLine,
      DataLine(Ev_delta("c")), EventLine("response.completed"), DataLine(Ev_completed)>>

Ev_error_again == JObj([type |-> JStr("error"), error |-> JObj([message |-> JStr("again")])])

Ev_failed_plain ==
    JObj([type |-> JStr("response.failed"), response |-> JObj([id |-> JStr("resp_3")])])

Ev_failed_late ==
    JObj([type |-> JStr("response.failed"),
          response |-> JObj([id |-> JStr("resp_4"),
                             error |-> JObj([message |-> JStr("late")])])])

\* answers for the aggregation: deltas alone, a done event before, between and
\* after deltas, fields of the wrong type, and terminal events in every order
FoldTexts ==
    {<<DataLine(Ev_delta("Hello")), DataLine(Ev_delta(", ")), DataLine(Ev_delta("world"))>>,
     <<DataLine(Ev_delta("Hel")), DataLine(Ev_done("Hello")), DataLine(Ev_delta("lo"))>>,
     <<DataLine(Ev_done("all")), DataLine(Ev_delta("!")), DataLine(Ev_done("none"))>>,
     <<DataLine(Ev_delta("")), DataLine(Ev_done("whole"))>>,
     <<DataLine(JObj([type |-> JStr("response.output_text.delta"), delta |-> JNum(1)])),
       DataLine(JObj([type |-> JStr("response.output_text.done"), text |-> JNull])),
       DataLine(Ev_delta("x"))>>,
     <<DataLine(Ev_delta("par")), DataLine(Ev_failed)>>,
     <<DataLine(Ev_failed), DataLine(Ev_failed_late)>>,
     <<DataLine(Ev_error), DataLine(Ev_failed)>>,
     <<DataLine(Ev_failed), DataLine(Ev_error)>>,
     <<DataLine(Ev_error), DataLine(Ev_error_again)>>,
     <<DataLine(Ev_completed), DataLine(Ev_failed_plain)>>,
     <<DataLine(Ev_failed_plain), DataLine(Ev_completed)>>,
     <<DataLine(JObj([type |-> JStr("response.failed"), response |-> JStr("resp_5")])),
       DataLine(JObj([type |-> JStr("error"), error |-> JStr("boom")])),
       DataLine(JObj([type |-> JStr("response.completed"), response |-> JNull]))>>,
     <<DataLine(JObj([type |-> JStr("response.failed"),
                      response |-> JObj([error |-> JStr("quota")])])),
       DataLine(Ev_failed_late)>>}

SseTexts(w) ==
    IF w = "sse" THEN FoldTexts
    ELSE IF Narrow(w)
    THEN {<<DataLine(Ev_completed)>>}
    ELSE {Sse_completed,
          Sse_labelled,
          Sse_deltas,
          <<>>,
          <<OtherLine, MalformedDataLine, EmptyDataLine>>,
          <<DataLine(Ev_error)>>,
          <<DataLine(Ev_error), DataLine(Ev_completed)>>,
          <<DataLine(Ev_completed), DataLine(Ev_error)>>,
          <<DataLine(Ev_delta("par")), DataLine(Ev_failed)>>,
          <<DataLine(Ev_delta("hi ")), DataLine(Ev_delta("there")), DataLine(Ev_completed)>>,
          <<DataLine(Ev_done("all")), DataLine(Ev_completed)>>,
          <<DataLine(JArr(<<Ev_completed>>)), DataLine(JStr("response.completed"))>>}

UpstreamStatuses(w) == IF Narrow(w) THEN {200, 401} ELSE {200, 401, 500}

UpstreamOutcomes(w) ==
    (IF Narrow(w) THEN {}
     ELSE {UpstreamReject, UpstreamBroken(200, Sse_deltas), UpstreamBroken(500, <<>>),
           UpstreamBare(200, Sse_completed)})
    \cup {UpstreamResponse(st, tx) : st \in UpstreamStatuses(w), tx \in SseTexts(w)}

NoRequest ==
    [method |-> "", path |-> "", headers |-> Headers(NoHeader, NoHeader, NoHeader),
     body |-> InvalidBody]

(***************************************************************************)
(* Pieces shared by the handlers.                                          *)
(***************************************************************************)
Last(seq) == seq[Len(seq)]

setLast(seq, x) == [seq EXCEPT ![Len(seq)] = x]

\* the headers of an upstream call that the properties read: a new Headers()
\* that gets the bearer, fixed and client-identification keys and the account;
\* none of the caller's credential headers is among the keys it sets
buildUpstreamHeaders(req, accessToken, accountId) ==
    [authorization |-> "Bearer " \o accessToken,
     ChatGPT_Account_ID |-> IF accountId = undefined \/ accountId = "" THEN undefined
                            ELSE accountId,
     x_api_key |-> NoHeader,
     api_key |-> NoHeader]

\* worker: a copy of the caller's headers without authorization, x-api-key,
\* host and content-length, then authorization set to the bearer; every other
\* header of the caller, api-key included, stays in the copy
buildUpstreamHeaders_worker(req, accessToken, accountId) ==
    [authorization |-> "Bearer " \o accessToken,
     ChatGPT_Account_ID |-> IF accountId = undefined \/ accountId = "" THEN undefined
                            ELSE accountId,
     x_api_key |-> NoHeader,
     api_key |-> IF req.headers.api_key.present
                 THEN Header(trim(req.headers.api_key.value)) ELSE NoHeader]

\* one upstream call: its headers and its body
upstreamCall(req, tok, e, body) ==
    [headers |-> buildUpstreamHeaders(req, tok.accessToken,
                                      OrElse(tok.accountId, e.CHATGPT_ACCOUNT_ID)),
     body |-> body, answered |-> FALSE, response |-> UpstreamReject]

\* worker: tokenData.accountId ?? env.CHATGPT_ACCOUNT_ID
upstreamCall_worker(req, tok, e, body) ==
    [headers |-> buildUpstreamHeaders_worker(req, tok.accessToken,
                                             Coalesce(tok.accountId, e.CHATGPT_ACCOUNT_ID)),
     body |-> body, answered |-> FALSE, response |-> UpstreamReject]

\* the call once the upstream has answered it
upstreamAnswered(calls, upstream) ==
    setLast(calls, [Last(calls) EXCEPT !.answered = TRUE, !.response = upstream])

\* a variant that presents the refresh token the store holds at that moment
forcedRefreshToken_stored(snapshot, stored) == stored.refreshToken

\* line 505: refreshAccessToken(token.refreshToken), token being the handler's local
forcedRefreshToken(snapshot, stored) == snapshot.refreshToken

\* a variant that also retries after a server error
needsForcedRefresh_anyFailure(status) == status >= 400

\* the test that sends a request into the forced refresh and the retry
needsForcedRefresh(status) == status = 401

\* a variant that reads the stream field after normalization
clientRequestedStreamOf_normalized(rawBody) ==
    Get(normalizeRequestBody(rawBody), "stream") = JBool(TRUE)

\* the handler's local clientRequestedStream
clientRequestedStreamOf(rawBody) == isObject(rawBody) /\ Field(rawBody, "stream") = JBool(TRUE)

\* one token-endpoint call: the refresh token presented, whether it is the forced
\* refresh after a 401, and (once answered) the response and what the refresher
\* computed from it
tokenCall(rt, forced) ==
    [refresh_token |-> rt, forced |-> forced, answered |-> FALSE,
     response |-> IssuerReject, result |-> Failure("")]

answered(call, response, result) ==
    [call EXCEPT !.answered = TRUE, !.response = response, !.result = result]

\* a variant that updates the access token and its expiry in place
installTokenState_fieldwise(old, new) ==
    [old EXCEPT !.accessToken = new.accessToken, !.expiresAt = new.expiresAt]

\* a variant that keeps whichever state expires later
installTokenState_keepFresher(old, new) == IF old.expiresAt >= new.expiresAt THEN old ELSE new

\* a variant that keeps the old account id when the new state has none
installTokenState_keepAccount(old, new) ==
    [new EXCEPT !.accountId = IF @ = undefined THEN old.accountId ELSE @]

\* the TokenState that replaces the stored one after a successful refresh
installTokenState(old, new) == new

\* requests are interchangeable: they are numbered in the order they arrive
StartedInOrder(r) == \A q \in AllReqs : q < r => pc[q] # "idle"

Finish(r, rep) ==
    /\ pc' = [pc EXCEPT ![r] = "done"]
    /\ reply' = [reply EXCEPT ![r] = rep]

(***************************************************************************)
(* The Node server's request handler.                                      *)
(***************************************************************************)
ResponsesPaths == {"/v1/responses", "/openai/v1/responses"}

ModelsPaths == {"/v1/models", "/openai/v1/models"}

HealthPaths == {"/", "/health"}

\* the branch of the handler's routing that a request takes
route(method, path) ==
    CASE method = "OPTIONS" -> "options"
      [] method = "GET" /\ path \in HealthPaths -> "health"
      [] method = "GET" /\ path \in ModelsPaths -> "models"
      [] method = "POST" /\ path \in ResponsesPaths -> "responses"
      [] OTHER -> "notfound"

\* Math.round(ms / 60000) for ms > 0
roundMinutes(ms) == (ms + 30000) \div 60000

\* a variant that takes every cached access token for valid
healthStatus_optimistic(ts, t) ==
    IF ts.accessToken # ""
    THEN [kind |-> "valid", minutes |-> roundMinutes(IF ts.expiresAt > t THEN ts.expiresAt - t ELSE 0)]
    ELSE [kind |-> "not_cached", minutes |-> 0]

\* lines 449-453: the tokenStatus of the health reply
healthStatus(ts, t) ==
    IF ts.accessToken # ""
    THEN IF ts.expiresAt > t
         THEN [kind |-> "valid", minutes |-> roundMinutes(ts.expiresAt - t)]
         ELSE [kind |-> "expired", minutes |-> 0]
    ELSE [kind |-> "not_cached", minutes |-> 0]

healthReply(ts, t) ==
    sendJson(200, [status |-> JStr("ok"), service |-> JStr("gpt-codex-proxy-local"),
                   tokenStatus |-> [t |-> "tokenStatus", v |-> healthStatus(ts, t)]])

modelList == sendJson(200, [object |-> JStr("list")])

\* the reply once the upstream has answered for the last time
\* the relay of a streamed reply: the lines read from the upstream body that the
\* pipe holds or has written, and whether the body has ended
NoPipe == [received |-> <<>>, ended |-> FALSE]

\* lines 509-550: the reply once the upstream's response is there.  A streamed
\* reply starts with the head (writeHead) and no body line yet; the other replies
\* are shaped from the whole body, and a body that cannot be read is thrown to the
\* outer catch
serverReply(stream, upstream) ==
    IF stream
    THEN [status |-> upstream.status,
          contentType |-> IF upstream.contentType # "" THEN upstream.contentType
                          ELSE "application/json",
          body |-> [t |-> "stream", v |-> <<>>]]
    ELSE IF upstream.bodyFails
    THEN sendJson(500, [error |-> JStr("internal_error"),
                        message |-> JStr("TypeError: terminated")])
    ELSE nonStreamReply(upstream.status, upstream.text)

\* after the reply is started: a streamed one is piped, the others are complete
Server_Respond(r, upstream) ==
    /\ reply' = [reply EXCEPT ![r] = serverReply(clientRequestedStream[r], upstream)]
    /\ pc' = [pc EXCEPT ![r] = IF clientRequestedStream[r] THEN "piping" ELSE "done"]

\* a variant that reports a refused token the way the outer catch reports
\* everything else
tokenError_asInternalError(message) ==
    sendJson(500, [error |-> JStr("internal_error"), message |-> JStr(message)])

tokenError(message) ==
    sendJson(500, [error |-> JStr("token_error"), message |-> JStr(message)])

internalError(message) ==
    sendJson(500, [error |-> JStr("internal_error"), message |-> JStr(message)])

\* lines 439-475: routing and the caller's authentication
Server_Receive(r) ==
    /\ impl = "server"
    /\ r \in Active(workload)
    /\ pc[r] = "idle"
    /\ StartedInOrder(r)
    /\ \E mp \in MethodPaths(workload), h \in HeaderSets(workload) :
          LET rq == [NoRequest EXCEPT !.method = mp[1], !.path = mp[2], !.headers = h]
              branch == route(mp[1], mp[2])
          IN  /\ request' = [request EXCEPT ![r] = rq]
              /\ CASE branch = "options" ->
                          Finish(r, [status |-> 204, contentType |-> "", body |-> JUndef])
                   [] branch = "health" -> Finish(r, healthReply(tokenState, now))
                   [] branch = "models" -> Finish(r, modelList)
                   [] branch = "responses" ->
                          IF validateProxyAuth(h, env.PROXY_SECRET)
                          THEN /\ pc' = [pc EXCEPT ![r] = "readJsonBody"]
                               /\ UNCHANGED reply
                          ELSE Finish(r, sendText(401, "Unauthorized"))
                   [] OTHER -> Finish(r, sendText(404, "Not found"))
              /\ warned' = IF branch = "responses" /\ ~validateProxyAuth(h, env.PROXY_SECRET)
                           THEN [warned EXCEPT ![r] = <<getAuthDebugInfo(h)>>]
                           ELSE warned
    /\ UNCHANGED <<workload, impl, env, now, tokenState, TOKEN_STORE,
                   clientRequestedStream, token, tokenCalls, upstreamCalls, pipe,
                   bodyRead>>

\* lines 402-410 and 477-483: a chunk of the body arrives.  The chunk that takes
\* the total over the cap rejects the read (and destroys the request), which the
\* handler answers like a body that does not parse
Server_BodyData(r) ==
    /\ impl = "server"
    /\ pc[r] = "readJsonBody"
    /\ bodyRead[r].chunks < MaxChunks
    /\ \E length \in ChunkSizes(workload) :
          LET total == bodyRead[r].total + length
          IN  /\ bodyRead' = [bodyRead EXCEPT ![r] = [chunks |-> @.chunks + 1, total |-> total]]
              /\ IF exceedsCap(total)
                 THEN Finish(r, sendText(400, "Invalid JSON body"))
                 ELSE UNCHANGED <<pc, reply>>
    /\ UNCHANGED <<workload, impl, env, now, tokenState, TOKEN_STORE, request,
                   clientRequestedStream, token, tokenCalls, upstreamCalls, pipe, warned>>

\* lines 411-418 and 477-503: the body has ended; parse it (a body without a byte
\* is read as {}), normalize it, then getValidToken, which either returns the
\* stored state (and the upstream call is issued) or issues a token-endpoint call
Server_Body(r) ==
    /\ impl = "server"
    /\ pc[r] = "readJsonBody"
    /\ bodyRead' = [bodyRead EXCEPT ![r] = NoBodyRead]
    /\ \E rawBody \in (IF bodyRead[r].chunks = 0 THEN {EmptyObject} ELSE Bodies(workload)) :
          /\ request' = [request EXCEPT ![r].body = rawBody]
          /\ IF parseRejects(rawBody)
             THEN /\ Finish(r, sendText(400, "Invalid JSON body"))
                  /\ UNCHANGED <<clientRequestedStream, token, tokenCalls, upstreamCalls>>
             ELSE /\ clientRequestedStream' =
                        [clientRequestedStream EXCEPT ![r] = clientRequestedStreamOf(rawBody)]
                  /\ UNCHANGED reply
                  /\ IF tokenIsFresh(tokenState, now)
                     THEN /\ token' = [token EXCEPT ![r] = tokenState]
                          /\ upstreamCalls' =
                                [upstreamCalls EXCEPT ![r] =
                                    Append(@, upstreamCall(request[r], tokenState, env,
                                                           normalizeRequestBody(rawBody)))]
                          /\ pc' = [pc EXCEPT ![r] = "upstream1"]
                          /\ UNCHANGED tokenCalls
                     ELSE /\ tokenCalls' =
                                [tokenCalls EXCEPT ![r] =
                                    Append(@, tokenCall(tokenState.refreshToken, FALSE))]
                          /\ pc' = [pc EXCEPT ![r] = "getValidToken"]
                          /\ UNCHANGED <<token, upstreamCalls>>
    /\ UNCHANGED <<workload, impl, env, now, tokenState, TOKEN_STORE, pipe, warned>>

\* lines 488-503 and 367-388: the token endpoint has answered getValidToken's refresh
Server_TokenResponse(r) ==
    /\ impl = "server"
    /\ pc[r] = "getValidToken"
    /\ \E response \in IssuerResponses(workload) :
          LET call == Last(tokenCalls[r])
              result == refreshAccessToken(call.refresh_token, response, now, env)
              new == installTokenState(tokenState, result.state)
          IN  /\ tokenCalls' = [tokenCalls EXCEPT ![r] = setLast(@, answered(call, response, result))]
              /\ IF result.ok
                 THEN /\ tokenState' = new
                      /\ token' = [token EXCEPT ![r] = new]
                      /\ upstreamCalls' =
                            [upstreamCalls EXCEPT ![r] =
                                Append(@, upstreamCall(request[r], new, env,
                                                       normalizeRequestBody(request[r].body)))]
                      /\ pc' = [pc EXCEPT ![r] = "upstream1"]
                      /\ UNCHANGED reply
                 ELSE /\ Finish(r, tokenError(result.message))
                      /\ UNCHANGED <<tokenState, token, upstreamCalls>>
    /\ UNCHANGED <<workload, impl, env, now, TOKEN_STORE, request, clientRequestedStream, pipe,
                   bodyRead, warned>>

\* lines 503-505 and 509-550: the first upstream call has answered; a 401 issues the
\* forced refresh with the refresh token of the request's own snapshot
Server_Upstream(r) ==
    /\ impl = "server"
    /\ pc[r] = "upstream1"
    /\ \E upstream \in UpstreamOutcomes(workload) :
          /\ upstreamCalls' = [upstreamCalls EXCEPT ![r] = upstreamAnswered(@, upstream)]
          /\ IF upstream.kind = "reject"
             THEN /\ Finish(r, internalError("TypeError: fetch failed"))
                  /\ UNCHANGED tokenCalls
             ELSE IF needsForcedRefresh(upstream.status)
             THEN /\ tokenCalls' = [tokenCalls EXCEPT ![r] =
                                       Append(@, tokenCall(forcedRefreshToken(token[r], tokenState),
                                                           TRUE))]
                  /\ pc' = [pc EXCEPT ![r] = "forcedRefresh"]
                  /\ UNCHANGED reply
             ELSE /\ Server_Respond(r, upstream)
                  /\ UNCHANGED tokenCalls
    /\ UNCHANGED <<workload, impl, env, now, tokenState, TOKEN_STORE, request,
                   clientRequestedStream, token, pipe,
                   bodyRead, warned>>

\* lines 505-506 and 554-556: the token endpoint has answered the forced refresh; a
\* failure is thrown to the handler's outer catch
Server_ForcedRefreshResponse(r) ==
    /\ impl = "server"
    /\ pc[r] = "forcedRefresh"
    /\ \E response \in IssuerResponses(workload) :
          LET call == Last(tokenCalls[r])
              result == refreshAccessToken(call.refresh_token, response, now, env)
              new == installTokenState(tokenState, result.state)
          IN  /\ tokenCalls' = [tokenCalls EXCEPT ![r] = setLast(@, answered(call, response, result))]
              /\ IF result.ok
                 THEN /\ tokenState' = new
                      /\ token' = [token EXCEPT ![r] = new]
                      /\ upstreamCalls' =
                            [upstreamCalls EXCEPT ![r] =
                                Append(@, upstreamCall(request[r], new, env,
                                                       normalizeRequestBody(request[r].body)))]
                      /\ pc' = [pc EXCEPT ![r] = "upstream2"]
                      /\ UNCHANGED reply
                 ELSE /\ Finish(r, internalError(result.message))
                      /\ UNCHANGED <<tokenState, token, upstreamCalls>>
    /\ UNCHANGED <<workload, impl, env, now, TOKEN_STORE, request, clientRequestedStream, pipe,
                   bodyRead, warned>>

\* lines 506-550: the retried upstream call has answered; whatever its status, the
\* reply is shaped from it
Server_Retry(r) ==
    /\ impl = "server"
    /\ pc[r] = "upstream2"
    /\ \E upstream \in UpstreamOutcomes(workload) :
          /\ upstreamCalls' = [upstreamCalls EXCEPT ![r] = upstreamAnswered(@, upstream)]
          /\ IF upstream.kind = "reject"
             THEN Finish(r, internalError("TypeError: fetch failed"))
             ELSE Server_Respond(r, upstream)
    /\ UNCHANGED <<workload, impl, env, now, tokenState, TOKEN_STORE, request,
                   clientRequestedStream, token, tokenCalls, pipe,
                   bodyRead, warned>>

\* lines 516-518: Readable.fromWeb(upstream.body) takes the next event of the
\* upstream body: a line, the end, or an error.  Nothing listens for the error of
\* the piped stream, so it is thrown outside the handler
Server_StreamRead(r) ==
    /\ impl = "server"
    /\ pc[r] = "piping"
    /\ ~pipe[r].ended
    /\ LET up == Last(upstreamCalls[r]).response
           n == Len(pipe[r].received)
       IN  IF n < Len(up.text)
           THEN /\ pipe' = [pipe EXCEPT ![r].received = Append(@, up.text[n + 1])]
                /\ UNCHANGED pc
           ELSE IF up.bodyFails
           THEN /\ pc' = [pc EXCEPT ![r] = "threw"]
                /\ UNCHANGED pipe
           ELSE /\ pipe' = [pipe EXCEPT ![r].ended = TRUE]
                /\ UNCHANGED pc
    /\ UNCHANGED <<workload, impl, env, now, tokenState, TOKEN_STORE, request,
                   clientRequestedStream, token, reply, tokenCalls, upstreamCalls,
                   bodyRead, warned>>

\* a variant that writes the newest line the pipe holds
pipeNext_newest(received, written) == received[Len(received)]

\* line 517: of the lines read, the one pipe(res) writes next, written being the
\* number of lines already written
pipeNext(received, written) == received[written + 1]

\* line 517: pipe(res) writes the oldest line it holds to the caller, and ends the
\* reply when the body has ended and nothing is left
Server_StreamWrite(r) ==
    /\ impl = "server"
    /\ pc[r] = "piping"
    /\ LET n == Len(reply[r].body.v)
       IN  IF n < Len(pipe[r].received)
           THEN /\ reply' = [reply EXCEPT ![r].body.v = Append(@, pipeNext(pipe[r].received, n))]
                /\ UNCHANGED pc
           ELSE /\ pipe[r].ended
                /\ pc' = [pc EXCEPT ![r] = "done"]
                /\ UNCHANGED reply
    /\ UNCHANGED <<workload, impl, env, now, tokenState, TOKEN_STORE, request,
                   clientRequestedStream, token, tokenCalls, upstreamCalls, pipe,
                   bodyRead, warned>>

(***************************************************************************)
(* The Cloudflare worker's request handler.                                *)
(***************************************************************************)
\* the branch of the worker's fetch (and handleResponses' method test) that a
\* request takes
route_worker(method, path) ==
    CASE method = "OPTIONS" -> "options"
      [] path \in ResponsesPaths -> IF method = "POST" THEN "responses" ELSE "notallowed"
      [] path \in ModelsPaths -> IF method = "GET" THEN "models" ELSE "notallowed"
      [] path \in HealthPaths -> IF method = "GET" THEN "health" ELSE "notallowed"
      [] OTHER -> "notfound"

plainText(status, text) == [status |-> status, contentType |-> "text/plain", body |-> JStr(text)]

healthStatus_worker(kv, t) ==
    IF kv = <<>> THEN [kind |-> "not_cached", minutes |-> 0]
    ELSE IF kv[1].expiresAt > t
    THEN [kind |-> "valid", minutes |-> roundMinutes(kv[1].expiresAt - t)]
    ELSE [kind |-> "expired", minutes |-> 0]

healthReply_worker(kv, t) ==
    sendJson(200, [status |-> JStr("ok"), service |-> JStr("gpt-codex-proxy"),
                   tokenStatus |-> [t |-> "tokenStatus", v |-> healthStatus_worker(kv, t)]])

authenticationError ==
    sendJson(401, [error |-> JStr("authentication_error"),
                   message |-> JStr("Codex OAuth authentication failed. Re-run the login script and update secrets.")])

\* the worker passes the upstream's status, headers and body through
workerReply(parsedBody, upstream) ==
    [status |-> upstream.status,
     contentType |-> upstream.contentType,
     body |-> IF Get(parsedBody, "stream") = JBool(TRUE)
              THEN [t |-> "stream", v |-> upstream.text]
              ELSE RawText(upstream.text)]

\* lines 853-866: a streamed reply hands the upstream body to the runtime; the
\* others await upstream.text(), outside any try, so a body that cannot be read
\* is an exception that leaves the handler
Worker_Respond(r, upstream) ==
    LET parsedBody == normalizeRequestBody_worker(request[r].body)
    IN  IF Get(parsedBody, "stream") # JBool(TRUE) /\ upstream.bodyFails
        THEN /\ pc' = [pc EXCEPT ![r] = "threw"]
             /\ UNCHANGED reply
        ELSE Finish(r, workerReply(parsedBody, upstream))

\* lines 916-957 and 782-796: routing and the caller's authentication
Worker_Receive(r) ==
    /\ impl = "worker"
    /\ r \in Active(workload)
    /\ pc[r] = "idle"
    /\ StartedInOrder(r)
    /\ \E mp \in MethodPaths(workload), h \in HeaderSets(workload) :
          LET rq == [NoRequest EXCEPT !.method = mp[1], !.path = mp[2], !.headers = h]
              branch == route_worker(mp[1], mp[2])
          IN  /\ request' = [request EXCEPT ![r] = rq]
              /\ CASE branch = "options" ->
                          Finish(r, [status |-> 204, contentType |-> "", body |-> JUndef])
                   [] branch = "health" -> Finish(r, healthReply_worker(TOKEN_STORE, now))
                   [] branch = "models" -> Finish(r, modelList)
                   [] branch = "notallowed" -> Finish(r, plainText(405, "Method not allowed"))
                   [] branch = "responses" ->
                          IF validateProxyAuth_worker(h, env.PROXY_SECRET)
                          THEN /\ pc' = [pc EXCEPT ![r] = "readJsonBody"]
                               /\ UNCHANGED reply
                          ELSE Finish(r, plainText(401, "Unauthorized"))
                   [] OTHER -> Finish(r, plainText(404, "Not found"))
    /\ UNCHANGED <<workload, impl, env, now, tokenState, TOKEN_STORE,
                   clientRequestedStream, token, tokenCalls, upstreamCalls, pipe,
                   bodyRead, warned>>

\* lines 797-809 and 760: the body has been parsed; getValidToken starts with the
\* read of the KV entry
Worker_Body(r) ==
    /\ impl = "worker"
    /\ pc[r] = "readJsonBody"
    /\ \E rawBody \in Bodies(workload) :
          /\ request' = [request EXCEPT ![r].body = rawBody]
          /\ IF parseRejects(rawBody)
             THEN Finish(r, plainText(400, "Invalid JSON body"))
             ELSE /\ pc' = [pc EXCEPT ![r] = "kvGet"]
                  /\ UNCHANGED reply
    /\ UNCHANGED <<workload, impl, env, now, tokenState, TOKEN_STORE,
                   clientRequestedStream, token, tokenCalls, upstreamCalls, pipe,
                   bodyRead, warned>>

\* lines 760-766 and 823-828: the KV entry has been read
Worker_KvGet(r) ==
    /\ impl = "worker"
    /\ pc[r] = "kvGet"
    /\ IF cachedIsFresh(TOKEN_STORE, now)
       THEN /\ token' = [token EXCEPT ![r] = TOKEN_STORE[1]]
            /\ upstreamCalls' =
                  [upstreamCalls EXCEPT ![r] =
                      Append(@, upstreamCall_worker(request[r], TOKEN_STORE[1], env,
                                             normalizeRequestBody_worker(request[r].body)))]
            /\ pc' = [pc EXCEPT ![r] = "upstream1"]
            /\ UNCHANGED tokenCalls
       ELSE /\ tokenCalls' =
                  [tokenCalls EXCEPT ![r] =
                      Append(@, tokenCall(cachedRefreshToken(TOKEN_STORE, env), FALSE))]
            /\ pc' = [pc EXCEPT ![r] = "getValidToken"]
            /\ UNCHANGED <<token, upstreamCalls>>
    /\ UNCHANGED <<workload, impl, env, now, tokenState, TOKEN_STORE, request,
                   clientRequestedStream, reply, pipe,
                   bodyRead, warned>>

\* lines 722-750, 807-821 and 830-850: the token endpoint has answered; the new
\* TokenData is computed and its KV put is issued.  A failure of getValidToken's
\* refresh is a 500 token_error, one of the forced refresh a 401
Worker_TokenResponse(r) ==
    /\ impl = "worker"
    /\ pc[r] \in {"getValidToken", "forcedRefresh"}
    /\ \E response \in IssuerResponses(workload) :
          LET call == Last(tokenCalls[r])
              result == refreshAndCacheTokens(call.refresh_token, response, now, env)
          IN  /\ tokenCalls' = [tokenCalls EXCEPT ![r] = setLast(@, answered(call, response, result))]
              /\ IF result.ok
                 THEN /\ token' = [token EXCEPT ![r] = result.state]
                      /\ pc' = [pc EXCEPT ![r] = IF call.forced THEN "kvPutForced" ELSE "kvPut"]
                      /\ UNCHANGED reply
                 ELSE /\ Finish(r, IF call.forced THEN authenticationError
                                   ELSE tokenError(result.message))
                      /\ UNCHANGED token
    /\ UNCHANGED <<workload, impl, env, now, tokenState, TOKEN_STORE, request,
                   clientRequestedStream, upstreamCalls, pipe,
                   bodyRead, warned>>

\* lines 752-756, 823-828 and 833-838: the KV put has completed; the upstream call
\* is issued with the new token
Worker_KvPut(r) ==
    /\ impl = "worker"
    /\ pc[r] \in {"kvPut", "kvPutForced"}
    /\ TOKEN_STORE' = <<installTokenState(IF TOKEN_STORE = <<>> THEN token[r] ELSE TOKEN_STORE[1],
                                          token[r])>>
    /\ upstreamCalls' =
          [upstreamCalls EXCEPT ![r] =
              Append(@, upstreamCall_worker(request[r], token[r], env,
                                     normalizeRequestBody_worker(request[r].body)))]
    /\ pc' = [pc EXCEPT ![r] = IF pc[r] = "kvPut" THEN "upstream1" ELSE "upstream2"]
    /\ UNCHANGED <<workload, impl, env, now, tokenState, request, clientRequestedStream,
                   token, reply, tokenCalls, pipe,
                   bodyRead, warned>>

\* lines 823-832 and 853-866: the first upstream call has answered.  A rejected
\* fetch is caught nowhere: the exception leaves the handler
Worker_Upstream(r) ==
    /\ impl = "worker"
    /\ pc[r] = "upstream1"
    /\ \E upstream \in UpstreamOutcomes(workload) :
          /\ upstreamCalls' = [upstreamCalls EXCEPT ![r] = upstreamAnswered(@, upstream)]
          /\ IF upstream.kind = "reject"
             THEN /\ pc' = [pc EXCEPT ![r] = "threw"]
                  /\ UNCHANGED <<reply, tokenCalls>>
             ELSE IF needsForcedRefresh(upstream.status)
             THEN /\ tokenCalls' = [tokenCalls EXCEPT ![r] =
                                       Append(@, tokenCall(token[r].refreshToken, TRUE))]
                  /\ pc' = [pc EXCEPT ![r] = "forcedRefresh"]
                  /\ UNCHANGED reply
             ELSE /\ Worker_Respond(r, upstream)
                  /\ UNCHANGED tokenCalls
    /\ UNCHANGED <<workload, impl, env, now, tokenState, TOKEN_STORE, request,
                   clientRequestedStream, token, pipe,
                   bodyRead, warned>>

\* lines 833-866: the retried upstream call has answered; a rejected fetch is caught
\* by the same catch as a failed forced refresh
Worker_Retry(r) ==
    /\ impl = "worker"
    /\ pc[r] = "upstream2"
    /\ \E upstream \in UpstreamOutcomes(workload) :
          /\ upstreamCalls' = [upstreamCalls EXCEPT ![r] = upstreamAnswered(@, upstream)]
          /\ IF upstream.kind = "reject"
             THEN Finish(r, authenticationError)
             ELSE Worker_Respond(r, upstream)
    /\ UNCHANGED <<workload, impl, env, now, tokenState, TOKEN_STORE, request,
                   clientRequestedStream, token, tokenCalls, pipe,
                   bodyRead, warned>>

(***************************************************************************)
(* The clock, and the specifications.                                      *)
(***************************************************************************)
Tick ==
    /\ now < Now0 + MaxTicks * TickMs
    /\ now' = now + TickMs
    /\ UNCHANGED <<workload, impl, env, tokenState, TOKEN_STORE, pc, request,
                   clientRequestedStream, token, reply, tokenCalls, upstreamCalls, pipe,
                   bodyRead, warned>>

InitFor(w) ==
    /\ workload = w
    /\ impl \in {"server", "worker"}
    /\ env \in Envs(w)
    /\ now = Now0
    /\ tokenState = BootTokenState(env)
    /\ TOKEN_STORE = <<>>
    /\ pc = [r \in AllReqs |-> "idle"]
    /\ request = [r \in AllReqs |-> NoRequest]
    /\ clientRequestedStream = [r \in AllReqs |-> FALSE]
    /\ token = [r \in AllReqs |-> TokenState("", "", 0, undefined)]
    /\ reply = [r \in AllReqs |-> NoReply]
    /\ tokenCalls = [r \in AllReqs |-> <<>>]
    /\ upstreamCalls = [r \in AllReqs |-> <<>>]
    /\ pipe = [r \in AllReqs |-> NoPipe]
    /\ bodyRead = [r \in AllReqs |-> NoBodyRead]
    /\ warned = [r \in AllReqs |-> <<>>]

Init == InitFor("concurrent")

InitSingle == InitFor("single")

InitAuth == InitFor("auth")

InitNormalize == InitFor("normalize")

InitSse == InitFor("sse")

InitRefresh == InitFor("refresh")

InitRouting == InitFor("routing")

Next ==
    \/ Tick
    \/ \E r \in AllReqs :
          \/ Server_Receive(r)
          \/ Server_BodyData(r)
          \/ Server_Body(r)
          \/ Server_TokenResponse(r)
          \/ Server_Upstream(r)
          \/ Server_ForcedRefreshResponse(r)
          \/ Server_Retry(r)
          \/ Server_StreamRead(r)
          \/ Server_StreamWrite(r)
          \/ Worker_Receive(r)
          \/ Worker_Body(r)
          \/ Worker_KvGet(r)
          \/ Worker_TokenResponse(r)
          \/ Worker_KvPut(r)
          \/ Worker_Upstream(r)
          \/ Worker_Retry(r)

Spec == Init /\ [][Next]_vars

SpecSingle == InitSingle /\ [][Next]_vars

SpecAuth == InitAuth /\ [][Next]_vars

SpecNormalize == InitNormalize /\ [][Next]_vars

SpecSse == InitSse /\ [][Next]_vars

SpecRefresh == InitRefresh /\ [][Next]_vars

SpecRouting == InitRouting /\ [][Next]_vars

(***************************************************************************)
(* Properties.  They read the logs of token-endpoint and upstream calls    *)
(* each request leaves behind, and the reply it sent.                      *)
(***************************************************************************)
Finished(r) == pc[r] \in {"done", "threw"}

ForcedCalls(r) == {i \in 1..Len(tokenCalls[r]) : tokenCalls[r][i].forced}

\* the issuer's answer to a token call is one the refresher must refuse: the
\* fetch failed, the status is not 2xx, or access_token is not a non-empty string
IssuerRefuses(response) ==
    \/ response.kind = "reject"
    \/ response.status < 200
    \/ response.status > 299
    \/ Get(response.payload, "access_token").t # "string"
    \/ Get(response.payload, "access_token").v = ""

\* the Authorization header that carries the access token of the issuer's answer
BearerOf(response) == "Bearer " \o Get(response.payload, "access_token").v

FirstStatusIs401(r) ==
    /\ Len(upstreamCalls[r]) >= 1
    /\ upstreamCalls[r][1].answered
    /\ upstreamCalls[r][1].response.kind = "response"
    /\ upstreamCalls[r][1].response.status = 401

FirstStatusIsOther(r) ==
    /\ Len(upstreamCalls[r]) >= 1
    /\ upstreamCalls[r][1].answered
    /\ upstreamCalls[r][1].response.kind = "response"
    /\ upstreamCalls[r][1].response.status # 401

AtMostTwoCalls(r) == Len(upstreamCalls[r]) <= 2 /\ Len(tokenCalls[r]) <= 2

\* C1 as stated: a finished request whose first upstream call returned 401 made
\* exactly one forced refresh and exactly one retry with that refresh's access
\* token; one whose first call returned another status made neither; no request
\* makes more than two upstream calls or two token-endpoint calls.
C1_ExactlyOneRetry ==
    \A r \in AllReqs :
        /\ AtMostTwoCalls(r)
        /\ Finished(r) /\ FirstStatusIs401(r) =>
              /\ Cardinality(ForcedCalls(r)) = 1
              /\ Len(upstreamCalls[r]) = 2
              /\ upstreamCalls[r][2].headers.authorization =
                    BearerOf(Last(tokenCalls[r]).response)
        /\ Finished(r) /\ FirstStatusIsOther(r) =>
              /\ ForcedCalls(r) = {}
              /\ Len(upstreamCalls[r]) = 1

\* C1, amended: the retry happens exactly when the forced refresh succeeds.  A
\* finished request whose first upstream call returned 401 made exactly one
\* forced refresh, whatever the expiry of the stored token; if the issuer's answer
\* was usable it made exactly one retry, carrying that answer's access token, and
\* nothing follows the retry even when it returns 401 again; if the answer was
\* refused it made no retry.  A first status other than 401 triggers no refresh
\* and no retry, and no request makes more than two upstream calls or two
\* token-endpoint calls.
C1_OneForcedRefreshOneRetry ==
    \A r \in AllReqs :
        /\ AtMostTwoCalls(r)
        /\ Finished(r) /\ FirstStatusIs401(r) =>
              /\ Cardinality(ForcedCalls(r)) = 1
              /\ Last(tokenCalls[r]).forced
              /\ Last(tokenCalls[r]).answered
              /\ IF IssuerRefuses(Last(tokenCalls[r]).response)
                 THEN Len(upstreamCalls[r]) = 1
                 ELSE /\ Len(upstreamCalls[r]) = 2
                      /\ upstreamCalls[r][2].answered
                      /\ upstreamCalls[r][2].headers.authorization =
                            BearerOf(Last(tokenCalls[r]).response)
        /\ Finished(r) /\ FirstStatusIsOther(r) =>
              /\ ForcedCalls(r) = {}
              /\ Len(upstreamCalls[r]) = 1

\* a request whose retry also returned 401 has finished after two upstream calls
\* and a forced refresh of a token that was not due for one
C1_RetryAlso401 ==
    \E r \in AllReqs :
        /\ Finished(r)
        /\ FirstStatusIs401(r)
        /\ Len(upstreamCalls[r]) = 2
        /\ upstreamCalls[r][2].response.kind = "response"
        /\ upstreamCalls[r][2].response.status = 401
        /\ Len(tokenCalls[r]) = 1
        /\ reply[r].status = 401

\* the request's forced refresh was answered and the issuer's answer was refused
ForcedRefreshFailed(r) ==
    /\ Len(tokenCalls[r]) >= 1
    /\ Last(tokenCalls[r]).forced
    /\ Last(tokenCalls[r]).answered
    /\ IssuerRefuses(Last(tokenCalls[r]).response)

\* C2 as stated: a request whose forced refresh after a 401 failed is answered
\* with status 401 and error code authentication_error, never with 500, and no
\* second upstream call is made.
C2_ForcedRefreshFailureIs401 ==
    \A r \in AllReqs :
        ForcedRefreshFailed(r) =>
            /\ Finished(r)
            /\ reply[r].status = 401
            /\ Field(reply[r].body, "error") = JStr("authentication_error")
            /\ Len(upstreamCalls[r]) = 1

\* the request's ordinary (expiry-driven) refresh was answered and refused
ExpiryRefreshFailed(r) ==
    /\ Len(tokenCalls[r]) >= 1
    /\ ~tokenCalls[r][1].forced
    /\ tokenCalls[r][1].answered
    /\ IssuerRefuses(tokenCalls[r][1].response)

\* C3: when the token is due for a refresh and the issuer's answer is refused
\* (transport failure, non-success status, or no access_token), the request is
\* answered 500 with error token_error and the refresher's message, and it makes
\* no upstream call.
C3_TokenErrorIs500 ==
    \A r \in AllReqs :
        ExpiryRefreshFailed(r) =>
            /\ Finished(r)
            /\ reply[r].status = 500
            /\ reply[r].body.t = "object"
            /\ DOMAIN reply[r].body.v = {"error", "message"}
            /\ reply[r].body.v.error = JStr("token_error")
            /\ reply[r].body.v.message = JStr(tokenCalls[r][1].result.message)
            /\ tokenCalls[r][1].result.message # ""
            /\ upstreamCalls[r] = <<>>
            /\ Len(tokenCalls[r]) = 1

\* a server request was refused a token because the issuer answered 200 without
\* an access_token
C3_MissingAccessToken ==
    \E r \in AllReqs :
        /\ impl = "server"
        /\ ExpiryRefreshFailed(r)
        /\ tokenCalls[r][1].response.kind = "http"
        /\ tokenCalls[r][1].response.status = 200
        /\ reply[r].status = 500

\* the TokenState getValidToken finds: the process-wide one in the server, the KV
\* entry in the worker, where no entry counts as expiresAt = 0 with the
\* configured refresh token
StoredTokenState ==
    IF impl = "server" THEN tokenState
    ELSE IF TOKEN_STORE # <<>> THEN TOKEN_STORE[1]
    ELSE TokenState("", env.OPENAI_REFRESH_TOKEN, 0, undefined)

\* the step in which request r runs getValidToken up to its first await
GetValidStep(r) ==
    /\ pc[r] \in {"readJsonBody", "kvGet"}
    /\ pc'[r] \in {"upstream1", "getValidToken"}

SuccessfulRefreshes ==
    {ri \in AllReqs \X (1..2) :
        /\ ri[2] <= Len(tokenCalls[ri[1]])
        /\ tokenCalls[ri[1]][ri[2]].answered
        /\ tokenCalls[ri[1]][ri[2]].result.ok}

\* the TokenStates that one bootstrap or one successful refresh has produced
WholeSnapshots ==
    {BootTokenState(env)} \cup
    {tokenCalls[ri[1]][ri[2]].result.state : ri \in SuccessfulRefreshes}

HoldsToken(r) == upstreamCalls[r] # <<>> \/ pc[r] \in {"kvPut", "kvPutForced"}

\* C5: the stored TokenState is always one whole snapshot, the bootstrap one or
\* the result of a single successful refresh, never a mixture of fields from two;
\* so is the token each request holds, and every upstream call carries the access
\* token and the account id of one such snapshot.
C5_WholeSnapshots ==
    /\ impl = "server" => tokenState \in WholeSnapshots
    /\ \A i \in DOMAIN TOKEN_STORE : TOKEN_STORE[i] \in WholeSnapshots
    /\ \A r \in AllReqs :
          /\ HoldsToken(r) => token[r] \in WholeSnapshots
          /\ \A i \in DOMAIN upstreamCalls[r] :
                \E ts \in WholeSnapshots :
                    LET h == buildUpstreamHeaders(request[r], ts.accessToken,
                                                  OrElse(ts.accountId, env.CHATGPT_ACCOUNT_ID))
                    IN  /\ upstreamCalls[r][i].headers.authorization = h.authorization
                        /\ upstreamCalls[r][i].headers.ChatGPT_Account_ID
                              = h.ChatGPT_Account_ID

\* in the server a request still holds the snapshot of its own refresh after
\* another refresh has replaced every field of the stored state
C5_RequestHoldsReplacedSnapshot ==
    \E r \in AllReqs :
        /\ impl = "server"
        /\ HoldsToken(r)
        /\ tokenState # BootTokenState(env)
        /\ token[r] # BootTokenState(env)
        /\ token[r].accessToken # tokenState.accessToken
        /\ token[r].refreshToken # tokenState.refreshToken
        /\ token[r].accountId # tokenState.accountId

\* a token-endpoint answer for request r is processed in this step and accepted
RefreshProcessed(r) ==
    /\ tokenCalls[r] # <<>>
    /\ ~Last(tokenCalls[r]).answered
    /\ Len(tokenCalls'[r]) = Len(tokenCalls[r])
    /\ Last(tokenCalls'[r]).answered
    /\ ~IssuerRefuses(Last(tokenCalls'[r]).response)

OthersRefreshing(r) ==
    \E q \in AllReqs \ {r} : tokenCalls[q] # <<>> /\ ~Last(tokenCalls[q]).answered

\* C6 (server): refreshes are not coordinated.  A request whose getValidToken
\* finds the token due starts its own token-endpoint call even while other
\* requests' calls are in flight; every accepted answer replaces the stored
\* TokenState with its own result, whatever is stored at that moment, and nothing
\* else changes the stored state, so the answer processed last is the one that
\* stays; and the request goes to the upstream with the access token of its own
\* answer.
C6_LastWriterWins ==
    [][impl = "server" =>
          /\ \A r \in AllReqs :
                /\ GetValidStep(r) /\ OthersRefreshing(r)
                      /\ StoredTokenState.expiresAt <= now + 60000 =>
                      Len(tokenCalls'[r]) = Len(tokenCalls[r]) + 1
                /\ RefreshProcessed(r) =>
                      /\ tokenState' = Last(tokenCalls'[r]).result.state
                      /\ token'[r] = tokenState'
                      /\ Len(upstreamCalls'[r]) = Len(upstreamCalls[r]) + 1
                      /\ Last(upstreamCalls'[r]).headers.authorization =
                            BearerOf(Last(tokenCalls'[r]).response)
          /\ tokenState' # tokenState => \E r \in AllReqs : RefreshProcessed(r)]_vars

\* two server requests presented the same refresh token; r's answer (at2 with a
\* rotated refresh token) was processed first and q's (at1) last, so the stored
\* state is q's while r's upstream call carries at2
C6_TwoRefreshesLastOneStored ==
    \E r, q \in AllReqs :
        /\ impl = "server"
        /\ r # q
        /\ Len(tokenCalls[r]) >= 1 /\ Len(tokenCalls[q]) >= 1
        /\ tokenCalls[r][1].answered /\ tokenCalls[q][1].answered
        /\ tokenCalls[r][1].refresh_token = tokenCalls[q][1].refresh_token
        /\ tokenCalls[r][1].result.ok /\ tokenCalls[q][1].result.ok
        /\ tokenCalls[r][1].result.state.refreshToken # tokenCalls[r][1].refresh_token
        /\ tokenCalls[r][1].result.state.accessToken # tokenCalls[q][1].result.state.accessToken
        /\ tokenState = tokenCalls[q][1].result.state
        /\ upstreamCalls[r] # <<>>
        /\ upstreamCalls[r][1].headers.authorization =
              "Bearer " \o tokenCalls[r][1].result.state.accessToken
        /\ upstreamCalls[r][1].headers.authorization # "Bearer " \o tokenState.accessToken

Quotes == {"\"", "'"}

\* a presented value with surrounding whitespace and then one leading and one
\* trailing quote removed
Unquoted(s) ==
    LET t == trim(s)
        a == IF Len(t) > 0 /\ t[1] \in Quotes THEN Tail(t) ELSE t
    IN  IF Len(a) > 0 /\ a[Len(a)] \in Quotes THEN SubSeq(a, 1, Len(a) - 1) ELSE a

\* the values a request presents as its secret: the whole Authorization value,
\* what follows a Bearer scheme, the first two colon-separated fields (user,
\* password) of a decoded Basic value, and the x-api-key and api-key values
PresentedSecrets(h) ==
    LET a == trim(h.authorization.value)
        bearer == matchScheme(a, <<"B", "e", "a", "r", "e", "r">>)
        basic == matchScheme(a, <<"B", "a", "s", "i", "c">>)
        fields == split(base64Decode(basic.group), ":")
    IN  (IF h.authorization.present /\ Len(a) > 0 THEN {a} ELSE {})
        \cup (IF h.authorization.present /\ bearer.match THEN {bearer.group} ELSE {})
        \cup (IF h.authorization.present /\ basic.match
              THEN {fields[i] : i \in {j \in 1..2 : j <= Len(fields)}} ELSE {})
        \cup (IF h.x_api_key.present THEN {h.x_api_key.value} ELSE {})
        \cup (IF h.api_key.present THEN {h.api_key.value} ELSE {})

PresentsSecret(h, secret) == \E v \in PresentedSecrets(h) : Unquoted(v) = secret

Unauthorized == sendText(401, "Unauthorized")

FinalUpstream(r) ==
    /\ pc[r] = "done"
    /\ upstreamCalls[r] # <<>>
    /\ Last(upstreamCalls[r]).answered
    /\ Last(upstreamCalls[r]).response.kind = "response"
    /\ ~Last(upstreamCalls[r]).response.bodyFails
    /\ Len(upstreamCalls[r]) = 2 \/ Last(upstreamCalls[r]).response.status # 401

\* the raw body is an object whose stream field is the boolean true
RawStreamTrue(rawBody) ==
    /\ rawBody.t = "object"
    /\ "stream" \in DOMAIN rawBody.v
    /\ rawBody.v.stream = JBool(TRUE)

\* C8 (server): the reply to a non-streaming request follows the aggregated SSE
\* result with strict precedence.  An error result gives 400 with exactly {error,
\* output_text}, whether or not a completed result is present and whatever the
\* upstream status; otherwise a completed result gives 200 with the completed
\* object's fields plus output_text; otherwise the reply has the upstream's status
\* and carries the event count and the raw text.
C8_ShapingPrecedence ==
    \A r \in AllReqs :
        impl = "server" /\ FinalUpstream(r) /\ ~RawStreamTrue(request[r].body) =>
            LET up == Last(upstreamCalls[r]).response
                parsed == buildNonStreamResponseFromSSE(up.text)
                body == reply[r].body
            IN  /\ body.t = "object"
                /\ reply[r].contentType = "application/json"
                /\ IF parsed.error # JNull
                   THEN /\ reply[r].status = 400
                        /\ DOMAIN body.v = {"error", "output_text"}
                        /\ body.v.error = parsed.error
                        /\ body.v.output_text = JStr(parsed.outputText)
                   ELSE IF parsed.completed # JNull
                   THEN /\ reply[r].status = 200
                        /\ DOMAIN body.v = DOMAIN parsed.completed.v \cup {"output_text"}
                        /\ \A k \in DOMAIN parsed.completed.v \ {"output_text"} :
                              body.v[k] = parsed.completed.v[k]
                        /\ body.v.output_text.t = "string"
                   ELSE /\ reply[r].status = up.status
                        /\ Get(body.v, "event_count") = JNum(parsed.eventCount)
                        /\ Get(body.v, "raw") = RawText(up.text)

\* the upstream answered 500 with a stream holding a completed and then an error
\* event, and the server replied 400
C8_ErrorBeatsCompleted ==
    \E r \in AllReqs :
        /\ impl = "server"
        /\ FinalUpstream(r)
        /\ ~RawStreamTrue(request[r].body)
        /\ Last(upstreamCalls[r]).response =
              UpstreamResponse(500, <<DataLine(Ev_completed), DataLine(Ev_error)>>)
        /\ reply[r].status = 400

\* the request carries the secret as a Bearer token
BearerSecret(r) == request[r].headers.authorization = Header(S_Bearer_abc123)

\* C9 as stated: an authenticated POST of {"input":"hi","stream":false} whose
\* upstream stream is one response.completed event with output_text "hi there" is
\* answered 200 with output_text "hi there".
C9_CompletedTextReturned ==
    \A r \in AllReqs :
        /\ impl = "server"
        /\ BearerSecret(r)
        /\ request[r].body = Body_hi
        /\ FinalUpstream(r)
        /\ Last(upstreamCalls[r]).response = UpstreamResponse(200, Sse_completed)
        => /\ reply[r].status = 200
           /\ Field(reply[r].body, "output_text") = JStr("hi there")

\* C10 (server): the reply is the upstream's stream passed through if and only if
\* the raw client body is an object whose stream field is the boolean true; for
\* stream false, absent or of another type, and for bodies that are no objects,
\* it is the aggregated JSON reply.  Every upstream call carries stream = true.
C10_ModeFromRawBody ==
    \A r \in AllReqs :
        impl = "server" =>
            /\ \A i \in DOMAIN upstreamCalls[r] :
                  Get(upstreamCalls[r][i].body, "stream") = JBool(TRUE)
            /\ FinalUpstream(r) =>
                  LET up == Last(upstreamCalls[r]).response
                  IN  IF RawStreamTrue(request[r].body)
                      THEN /\ reply[r].body = [t |-> "stream", v |-> up.text]
                           /\ reply[r].status = up.status
                      ELSE /\ reply[r].body.t = "object"
                           /\ reply[r].contentType = "application/json"
                           /\ reply[r] = nonStreamReply(up.status, up.text)

\* a body with stream = 1 went upstream with stream = true and was answered with
\* the aggregated JSON reply
C10_NonBooleanStreamAggregated ==
    \E r \in AllReqs :
        /\ impl = "server"
        /\ FinalUpstream(r)
        /\ Field(request[r].body, "stream") = JNum(1)
        /\ Get(Last(upstreamCalls[r]).body, "stream") = JBool(TRUE)
        /\ reply[r].body.t = "object"

IsPrefix(s, t) == Len(s) <= Len(t) /\ SubSeq(t, 1, Len(s)) = s

\* the server has started a streamed reply to request r
Streaming(r) ==
    /\ impl = "server"
    /\ pc[r] \in {"piping", "done", "threw"}
    /\ reply[r].body.t = "stream"

\* the lines written to the caller are at every moment the first of the lines
\* read from the upstream body, which are the first of the lines the upstream
\* sent; a reply that has ended carries all of them
RelayInOrder(r) ==
    /\ IsPrefix(reply[r].body.v, pipe[r].received)
    /\ IsPrefix(pipe[r].received, Last(upstreamCalls[r]).response.text)
    /\ pc[r] = "done" => reply[r].body.v = Last(upstreamCalls[r]).response.text

\* C11 as stated: a streamed reply has the status and the content type of the
\* final upstream response, and what has been written to the caller is at every
\* moment a prefix of what has been received from the upstream.
C11_SameHeadAndPrefix ==
    \A r \in AllReqs :
        Streaming(r) =>
            /\ reply[r].status = Last(upstreamCalls[r]).response.status
            /\ reply[r].contentType = Last(upstreamCalls[r]).response.contentType
            /\ RelayInOrder(r)

\* C11, amended for an upstream response without a content type: a streamed reply
\* has the status of the final upstream response and its content type, or
\* application/json when it has none; what has been written to the caller is at
\* every moment a prefix of what has been received from the upstream, line for
\* line, and a reply that has ended carries the whole upstream body.
C11_TransparentRelay ==
    \A r \in AllReqs :
        Streaming(r) =>
            LET up == Last(upstreamCalls[r]).response
            IN  /\ reply[r].status = up.status
                /\ reply[r].contentType =
                      IF up.contentType = "" THEN "application/json" ELSE up.contentType
                /\ RelayInOrder(r)

\* a relay in progress: two lines read from the upstream, the first one written
C11_OneWrittenOneHeld ==
    \E r \in AllReqs :
        /\ Streaming(r)
        /\ pc[r] = "piping"
        /\ Len(pipe[r].received) = 2
        /\ Len(reply[r].body.v) = 1
        /\ pipe[r].received[1] # pipe[r].received[2]

\* the reply of a finished request falls in one of the terminal classes: success,
\* client error, upstream error or internal error
TerminalReply(r) == reply[r].status \in 200..599

\* the request's last upstream call failed in transport or while its body was read
UpstreamFailed(r) ==
    /\ upstreamCalls[r] # <<>>
    /\ Last(upstreamCalls[r]).answered
    /\ \/ Last(upstreamCalls[r]).response.kind = "reject"
       \/ Last(upstreamCalls[r]).response.bodyFails

\* C12 as stated (server): whatever the issuer and the upstream do, no exception
\* leaves the handler, a request that has ended has exactly one reply, of a
\* terminal class, and a failure of the upstream call or of reading its body, also
\* after the reply's head was written, ends the request (with 500 internal_error
\* when no reply was started before).
C12_NothingEscapes ==
    \A r \in AllReqs :
        impl = "server" =>
            /\ pc[r] # "threw"
            /\ pc[r] = "done" => TerminalReply(r)
            /\ UpstreamFailed(r) /\ pc[r] # "piping" =>
                  /\ pc[r] = "done"
                  /\ reply[r].body.t # "stream" =>
                        /\ reply[r].status = 500
                        /\ Field(reply[r].body, "error") = JStr("internal_error")

\* the step in which the body of request r ends and is parsed
BodyEndStep(r) ==
    /\ pc[r] = "readJsonBody"
    /\ pc'[r] # "readJsonBody"
    /\ bodyRead'[r] = NoBodyRead

\* a request that has ended issues nothing any more
EndedStaysQuiet(r) ==
    pc[r] = "done" =>
        /\ pc'[r] = "done"
        /\ reply'[r] = reply[r]
        /\ tokenCalls'[r] = tokenCalls[r]
        /\ upstreamCalls'[r] = upstreamCalls[r]

\* C13: a request whose body does not parse as JSON ends, in the step that parses
\* it, with a 400 reply, having issued no token-endpoint call and no upstream call,
\* and it issues none afterwards.
C13_ParseFailureIs400 ==
    [][\A r \in AllReqs :
          /\ BodyEndStep(r) /\ request'[r].body = InvalidBody =>
                /\ pc'[r] = "done"
                /\ reply'[r].status = 400
                /\ reply'[r].body = JStr("Invalid JSON body")
                /\ tokenCalls'[r] = <<>>
                /\ upstreamCalls'[r] = <<>>
          /\ EndedStaysQuiet(r)]_vars

\* the server has answered 400 to a body that arrived whole and did not parse
C13_InvalidBodyRefused ==
    \E r \in AllReqs :
        /\ impl = "server"
        /\ pc[r] = "done"
        /\ request[r].body = InvalidBody
        /\ bodyRead[r] = NoBodyRead
        /\ reply[r] = sendText(400, "Invalid JSON body")
        /\ tokenCalls[r] = <<>>
        /\ upstreamCalls[r] = <<>>

\* the step in which a chunk of the body of request r arrives
BodyChunkStep(r) == bodyRead'[r].chunks = bodyRead[r].chunks + 1

\* C14 (server): the chunk that takes the accumulated length of the body over
\* 2 MiB ends the request in that step with a 400 reply and without any call, and
\* the request stays ended; a chunk that leaves the length at 2 MiB or less,
\* exactly 2 MiB included, leaves the read going, and the body is then taken at
\* its end and not refused for its size; this holds for every split into chunks.
C14_BodyCap ==
    [][\A r \in AllReqs :
          impl = "server" =>
              /\ BodyChunkStep(r) =>
                    /\ pc[r] = "readJsonBody"
                    /\ bodyRead[r].total <= 2 * 1024 * 1024
                    /\ bodyRead'[r].total > bodyRead[r].total
                    /\ IF bodyRead'[r].total > 2 * 1024 * 1024
                       THEN /\ pc'[r] = "done"
                            /\ reply'[r].status = 400
                            /\ tokenCalls'[r] = <<>>
                            /\ upstreamCalls'[r] = <<>>
                       ELSE /\ pc'[r] = "readJsonBody"
                            /\ reply'[r] = reply[r]
              /\ BodyEndStep(r) /\ request'[r].body # InvalidBody => pc'[r] # "done"
              /\ EndedStaysQuiet(r)
              /\ pc[r] = "done" => bodyRead'[r] = bodyRead[r]]_vars

\* the server has refused a body whose second chunk took it over the cap
C14_SecondChunkCrossesCap ==
    \E r \in AllReqs :
        /\ impl = "server"
        /\ pc[r] = "done"
        /\ bodyRead[r].chunks = 2
        /\ bodyRead[r].total = 2 * 1024 * 1024 + 64
        /\ reply[r].status = 400
        /\ upstreamCalls[r] = <<>>

(***************************************************************************)
(* The normalizers, seen through the bodies the requests send upstream.    *)
(***************************************************************************)
\* the calls request r has sent upstream
SentCalls(r) == DOMAIN upstreamCalls[r]

\* the body of request r's i-th upstream call
SentBody(r, i) == upstreamCalls[r][i].body

\* C15: whatever the raw body of a request to the Node server is, the body it
\* sends upstream has an input that is a non-empty sequence
C15_InputNonEmpty ==
    impl = "server" =>
        \A r \in AllReqs : \A i \in SentCalls(r) :
            LET input == Get(SentBody(r, i), "input")
            IN  input.t = "array" /\ input.v # <<>>

\* C16: in both implementations every body sent upstream has store = false and
\* stream = true, whatever the raw body set
C16_StoreOffStreamOn ==
    \A r \in AllReqs : \A i \in SentCalls(r) :
        /\ Get(SentBody(r, i), "store") = JBool(FALSE)
        /\ Get(SentBody(r, i), "stream") = JBool(TRUE)

\* the model a raw body asks for, as the client wrote it
RawModel(r) == Field(request[r].body, "model")

\* the raw bodies with a model that is a string with something in it besides blanks
AsksForModel(r) == RawModel(r).t = "string" /\ trim(RawModel(r).v) # <<>>

\* the model request r's i-th upstream call names
SentModel(r, i) == Get(SentBody(r, i), "model")

\* C17 as stated: on the Node server a high-effort alias resolves to the canonical
\* model id, so does
\* an absent or empty model, and every other model goes upstream exactly as
\* the client wrote it
C17_OthersVerbatim ==
    impl = "server" =>
        \A r \in AllReqs : \A i \in SentCalls(r) :
            IF ~AsksForModel(r) \/ toLowerCase(trim(RawModel(r).v)) \in highAliases
            THEN SentModel(r, i) = JStr(DEFAULT_UPSTREAM_MODEL)
            ELSE SentModel(r, i) = RawModel(r)

\* C17: on the Node server a high-effort alias (after trim and lower-casing)
\* resolves to the canonical model id, so does a model that is absent, no
\* string, empty or blank, and every other model goes upstream trimmed and
\* lower-cased
C17_OthersTrimmedLowerCased ==
    impl = "server" =>
        \A r \in AllReqs : \A i \in SentCalls(r) :
            IF ~AsksForModel(r) \/ toLowerCase(trim(RawModel(r).v)) \in highAliases
            THEN SentModel(r, i) = JStr(DEFAULT_UPSTREAM_MODEL)
            ELSE SentModel(r, i) = JStr(toLowerCase(trim(RawModel(r).v)))

\* a model in capitals and padded with blanks has gone upstream, and it is no alias
C17_PaddedCapitalsSent ==
    /\ impl = "server"
    /\ \E r \in AllReqs : \E i \in SentCalls(r) :
          /\ AsksForModel(r)
          /\ toLowerCase(trim(RawModel(r).v)) \notin highAliases
          /\ RawModel(r).v # toLowerCase(trim(RawModel(r).v))

\* the input and the messages of a raw body, as the client wrote them
RawInput(r) == Field(request[r].body, "input")

RawMessages(r) == Field(request[r].body, "messages")

\* one user or role-tagged message with a single text part
OneTextMessage(role, text) ==
    JObj([type |-> JStr(S_message), role |-> JStr(role),
          content |-> JArr(<<JObj([type |-> JStr(S_input_text), text |-> JStr(text)])>>)])

\* the entries of a messages array that the conversion keeps
KeepsEntry(m) == m.t \in {"object", "array"} /\ Field(m, "content").t = "string"

\* the role the conversion gives a kept entry
RoleOfEntry(m) ==
    IF Field(m, "role").t = "string" /\ Field(m, "role").v # <<>> THEN Field(m, "role").v
    ELSE S_user

\* the kept entries of a messages value, converted, in their order
ConvertedEntries(messages) ==
    IF messages.t # "array" THEN <<>>
    ELSE LET kept == SelectSeq(messages.v, KeepsEntry)
         IN  [i \in 1..Len(kept) |-> OneTextMessage(RoleOfEntry(kept[i]), Field(kept[i], "content").v)]

\* the input upstream that the priority rule asks for, given which strings count
\* as a string input
InputByPriority(r, countsAsString) ==
    IF RawInput(r).t = "array" THEN RawInput(r)
    ELSE IF countsAsString THEN JArr(<<OneTextMessage(S_user, RawInput(r).v)>>)
    ELSE IF ConvertedEntries(RawMessages(r)) # <<>> THEN JArr(ConvertedEntries(RawMessages(r)))
    ELSE JArr(<<OneTextMessage(S_user, S_Hello)>>)

\* C18 as stated: on the Node server the input sent upstream is the array input
\* verbatim, else one user message around a non-empty string input, else the
\* converted messages, else the default greeting
C18_NonEmptyStringWrapped ==
    impl = "server" =>
        \A r \in AllReqs : \A i \in SentCalls(r) :
            Get(SentBody(r, i), "input")
                = InputByPriority(r, RawInput(r).t = "string" /\ RawInput(r).v # <<>>)

\* C18: on the Node server the input sent upstream is the array input verbatim,
\* else one user message around a string input that has a character besides
\* whitespace (the text untrimmed), else the messages converted entry by entry
\* in order (string content only, role defaulting to user), else the default
\* greeting
C18_InputPriority ==
    impl = "server" =>
        \A r \in AllReqs : \A i \in SentCalls(r) :
            Get(SentBody(r, i), "input")
                = InputByPriority(r, RawInput(r).t = "string" /\ trim(RawInput(r).v) # <<>>)

\* a body with a blank string input and chat messages went upstream as the
\* converted messages
C18_BlankInputFallsToMessages ==
    /\ impl = "server"
    /\ \E r \in AllReqs : \E i \in SentCalls(r) :
          /\ RawInput(r).t = "string" /\ RawInput(r).v # <<>> /\ trim(RawInput(r).v) = <<>>
          /\ Len(ConvertedEntries(RawMessages(r))) = 2
          /\ Get(SentBody(r, i), "input") = JArr(ConvertedEntries(RawMessages(r)))

\* the reasoning effort of a raw body, as the client wrote it
RawEffort(r) == Field(Field(request[r].body, "reasoning"), "effort")

\* the raw bodies that carry a non-empty string reasoning.effort
HasExplicitEffort(r) == RawEffort(r).t = "string" /\ RawEffort(r).v # <<>>

\* C19: on the Node server the reasoning effort sent upstream is the body's
\* non-empty string reasoning.effort lower-cased, and 'high' in every other
\* case, whatever model the body names
C19_EffortExplicitOrHigh ==
    impl = "server" =>
        \A r \in AllReqs : \A i \in SentCalls(r) :
            Field(Get(SentBody(r, i), "reasoning"), "effort")
                = IF HasExplicitEffort(r) THEN JStr(toLowerCase(RawEffort(r).v))
                  ELSE JStr(DEFAULT_REASONING_EFFORT)

\* a body that names a model without 'high' in it and carries no effort went
\* upstream with effort 'high'
C19_PlainModelGetsHigh ==
    /\ impl = "server"
    /\ \E r \in AllReqs : \E i \in SentCalls(r) :
          /\ RawModel(r) = JStr(<<"g", "p", "t", "-", "4", "o">>)
          /\ ~HasExplicitEffort(r)
          /\ Field(Get(SentBody(r, i), "reasoning"), "effort") = JStr(DEFAULT_REASONING_EFFORT)

\* the requests whose upstream answer the server has parsed as SSE text
ParsedAnswer(r) == impl = "server" /\ ~clientRequestedStream[r] /\ FinalUpstream(r)

\* the lines of a text that are data: lines with valid JSON after the colon
IsEventSource(line) == line.kind = "data" /\ ~line.payload.empty /\ line.payload.ok

\* the label in force at line i of a text: that of the last event: line before
\* it, and 'message' when there is none
LabelAt(text, i) ==
    LET labels == {j \in 1..(i - 1) : text[j].kind = "event"}
    IN  IF labels = {} THEN "message"
        ELSE text[CHOOSE j \in labels : \A k \in labels : k <= j].label

\* the events a text stands for: its valid data: lines in order, each under the
\* label in force at its line
EventsOf(text) ==
    LET Valid(i) == IsEventSource(text[i])
        at == SelectSeq([i \in 1..Len(text) |-> i], Valid)
    IN  [k \in 1..Len(at) |-> [event |-> LabelAt(text, at[k]), data |-> text[at[k]].payload.value]]

\* C20: parsing an upstream answer yields one event per data: line with valid
\* JSON, in the order of those lines, each under the label of the last event:
\* line before it ('message' if none, blank lines do not reset it); every
\* other line yields nothing
C20_OneEventPerValidDataLine ==
    \A r \in AllReqs :
        ParsedAnswer(r) =>
            parseSSE(Last(upstreamCalls[r]).response.text)
                = EventsOf(Last(upstreamCalls[r]).response.text)

\* a parsed answer with a data: line before any label, a blank line between a
\* label and the next valid data: line, and a malformed data: line
C20_LabelSurvivesBlankLine ==
    \E r \in AllReqs :
        /\ ParsedAnswer(r)
        /\ LET text == Last(upstreamCalls[r]).response.text
           IN  /\ \E i \in 1..Len(text) : IsEventSource(text[i]) /\ LabelAt(text, i) = "message"
               /\ \E i, j, k \in 1..Len(text) :
                     /\ i < j /\ j < k
                     /\ text[i].kind = "event" /\ text[j].kind = "blank"
                     /\ IsEventSource(text[k]) /\ LabelAt(text, k) = text[i].label
               /\ \E i \in 1..Len(text) : text[i].kind = "data" /\ ~IsEventSource(text[i])
               /\ Len(parseSSE(text)) = 4

(***************************************************************************)
(* The aggregation of an upstream answer, stated over the events in the    *)
(* order parseSSE yields them.                                             *)
(***************************************************************************)
\* the events of the answer that request r's reply was built from
AnswerEvents(r) == parseSSE(Last(upstreamCalls[r]).response.text)

\* what the aggregation made of that answer
Aggregated(r) == buildNonStreamResponseFromSSE(Last(upstreamCalls[r]).response.text)

IsDelta(e) ==
    /\ isObject(e.data)
    /\ Field(e.data, "type") = JStr("response.output_text.delta")
    /\ Field(e.data, "delta").t = "string"

IsDone(e) ==
    /\ isObject(e.data)
    /\ Field(e.data, "type") = JStr("response.output_text.done")
    /\ Field(e.data, "text").t = "string"

\* the text accumulated after the first n events
RECURSIVE TextAfter(_, _)
TextAfter(events, n) ==
    IF n = 0 THEN ""
    ELSE LET before == TextAfter(events, n - 1)
         IN  IF IsDelta(events[n]) THEN before \o Field(events[n].data, "delta").v
             ELSE IF IsDone(events[n]) /\ before = "" THEN Field(events[n].data, "text").v
             ELSE before

\* C21: the aggregated text of a parsed answer is built event by event: a delta
\* with a string delta appends, a done with a string text sets the text only
\* while it is still empty; an answer of deltas alone yields their
\* concatenation and neither a completed nor an error result
C21_OutputTextFold ==
    \A r \in AllReqs :
        ParsedAnswer(r) =>
            LET events == AnswerEvents(r)
            IN  /\ Aggregated(r).outputText = TextAfter(events, Len(events))
                /\ (\A n \in 1..Len(events) : IsDelta(events[n]))
                      => /\ Aggregated(r).completed = JNull
                         /\ Aggregated(r).error = JNull

\* a parsed answer in which a done event came after deltas had accumulated text
\* and the text is the deltas' alone
C21_DoneAfterDeltasIgnored ==
    \E r \in AllReqs :
        /\ ParsedAnswer(r)
        /\ LET events == AnswerEvents(r)
           IN  /\ Len(events) = 3
               /\ IsDelta(events[1]) /\ IsDone(events[2]) /\ IsDelta(events[3])
               /\ TextAfter(events, 1) # ""
               /\ Aggregated(r).outputText = "Hello"

IsErrorEvent(e) ==
    /\ isObject(e.data)
    /\ Field(e.data, "type") = JStr("error")
    /\ isObject(Field(e.data, "error"))

IsTerminal(e) ==
    /\ isObject(e.data)
    /\ Field(e.data, "type") \in {JStr("response.completed"), JStr("response.failed")}
    /\ isObject(Field(e.data, "response"))

IsFailedWithError(e) ==
    /\ IsTerminal(e)
    /\ Field(e.data, "type") = JStr("response.failed")
    /\ isObject(Field(Field(e.data, "response"), "error"))

\* the greatest and the least member of a non-empty set of positions
LastOf(S) == CHOOSE n \in S : \A m \in S : m <= n

FirstOf(S) == CHOOSE n \in S : \A m \in S : n <= m

\* the completed result the events stand for: the response of the last
\* completed or failed event
CompletedOf(events) ==
    LET at == {n \in 1..Len(events) : IsTerminal(events[n])}
    IN  IF at = {} THEN JNull ELSE Field(events[LastOf(at)].data, "response")

\* the error result the events stand for: the error of the last error event, and
\* without any error event the embedded error of the first failed event that has one
ErrorOf(events) ==
    LET errors == {n \in 1..Len(events) : IsErrorEvent(events[n])}
        failed == {n \in 1..Len(events) : IsFailedWithError(events[n])}
    IN  IF errors # {} THEN Field(events[LastOf(errors)].data, "error")
        ELSE IF failed # {} THEN Field(Field(events[FirstOf(failed)].data, "response"), "error")
        ELSE JNull

\* C22: the completed result of a parsed answer is the response of its last
\* completed or failed event, its error result that of its last error event;
\* a failed event sets the error from its embedded error only when none is
\* recorded yet, so without an error event the first embedded error is the result
C22_TerminalEventFold ==
    \A r \in AllReqs :
        ParsedAnswer(r) =>
            /\ Aggregated(r).completed = CompletedOf(AnswerEvents(r))
            /\ Aggregated(r).error = ErrorOf(AnswerEvents(r))

\* an answer with a failed event that embeds an error and no error event was
\* answered with that embedded error
C22_EmbeddedErrorSurfaces ==
    \E r \in AllReqs :
        /\ ParsedAnswer(r)
        /\ LET events == AnswerEvents(r)
           IN  /\ \A n \in 1..Len(events) : ~IsErrorEvent(events[n])
               /\ \E n \in 1..Len(events) :
                     /\ IsFailedWithError(events[n])
                     /\ Aggregated(r).error = Field(Field(events[n].data, "response"), "error")
                     /\ reply[r].status = 400
                     /\ Field(reply[r].body, "error") = Aggregated(r).error

(***************************************************************************)
(* The refresher, stated over the step that processes the token endpoint's *)
(* answer.                                                                 *)
(***************************************************************************)
\* the step in which request r's refresh succeeds
RefreshSucceeds(r) == RefreshProcessed(r) /\ Last(tokenCalls'[r]).result.ok

\* the payload of the answer that step processes, and the refresh token that was presented
AnswerPayload(r) == Last(tokenCalls'[r]).response.payload

PresentedRefreshToken(r) == Last(tokenCalls[r]).refresh_token

\* the TokenState that step produces: the server installs it in the same step,
\* the worker hands it to the KV put
ProducedState(r) == IF impl = "server" THEN tokenState' ELSE token'[r]

\* the worker's KV put stores the TokenState the refresher produced, as it is
PutStoresProduced(r) ==
    (pc[r] \in {"kvPut", "kvPutForced"} /\ pc'[r] # pc[r]) => TOKEN_STORE' = <<token[r]>>

\* the lifetime in seconds that the issuer's expires_in stands for
LifetimeOf(raw) == IF raw.t = "number" /\ raw.v > 0 THEN raw.v ELSE 3600

\* C23: a successful refresh produces expiresAt = (time the answer is processed)
\* + expires_in * 1000 when expires_in is a positive number, and + 3,600,000
\* when it is absent, zero, negative or not finite; the expiry is strictly in
\* the future at that moment, and the produced state is what gets stored
C23_ExpiresAtFromExpiresIn ==
    [][\A r \in AllReqs :
          /\ RefreshSucceeds(r) =>
                LET raw == Get(AnswerPayload(r), "expires_in")
                IN  /\ raw.t \in {"number", "infinity", "undefined"}
                          => ProducedState(r).expiresAt = now + LifetimeOf(raw) * 1000
                    /\ ProducedState(r).expiresAt > now
          /\ PutStoresProduced(r)]_vars

\* the stored state came from an answer with a negative expires_in and expires
\* an hour after the refresh
C23_NegativeLifetimeDefaulted ==
    \E r \in AllReqs : \E i \in DOMAIN tokenCalls[r] :
        /\ tokenCalls[r][i].answered
        /\ tokenCalls[r][i].result.ok
        /\ Get(tokenCalls[r][i].response.payload, "expires_in") = JNum(-5)
        /\ StoredTokenState = tokenCalls[r][i].result.state
        /\ StoredTokenState.expiresAt \in {Now0 + k * TickMs + 3600000 : k \in 0..MaxTicks}

\* the refresh token the issuer's answer carries, absent (undefined) when the
\* field is missing, not a string or empty
SuppliedRefreshToken(r) ==
    LET rt == Get(AnswerPayload(r), "refresh_token")
    IN  IF rt.t = "string" /\ rt.v # "" THEN rt.v ELSE undefined

\* C24: on the Node server a successful refresh stores the refresh token the
\* issuer supplied, and the one that was presented when the answer carries
\* none; an answer without a refresh token is no failure; and the stored
\* refresh token is never empty
C24_RefreshTokenKeptOrRotated ==
    [][impl = "server" =>
          /\ \A r \in AllReqs :
                /\ RefreshSucceeds(r) =>
                      tokenState'.refreshToken
                          = IF SuppliedRefreshToken(r) # undefined THEN SuppliedRefreshToken(r)
                            ELSE PresentedRefreshToken(r)
                /\ (RefreshProcessed(r) /\ SuppliedRefreshToken(r) = undefined)
                      => Last(tokenCalls'[r]).result.ok
          /\ tokenState.refreshToken \notin {"", undefined}
          /\ tokenState'.refreshToken \notin {"", undefined}]_vars

\* the server has refreshed successfully on an answer without a refresh token and
\* still holds the one it presented
C24_PresentedTokenRetained ==
    /\ impl = "server"
    /\ \E r \in AllReqs : \E i \in DOMAIN tokenCalls[r] :
          /\ tokenCalls[r][i].answered
          /\ tokenCalls[r][i].result.ok
          /\ Get(tokenCalls[r][i].response.payload, "refresh_token") = JUndef
          /\ tokenState = tokenCalls[r][i].result.state
          /\ tokenState.refreshToken = tokenCalls[r][i].refresh_token

\* the account id each token of the environment carries in its claims
AccountIdIn(tok) ==
    CASE tok = "at0" -> "acct-boot"
      [] tok = "at1" -> "acct-at1"
      [] tok = "id1" -> "org-id1"
      [] OTHER -> undefined

\* the string in a field of the answer's payload, undefined when it is no string
PayloadString(r, key) ==
    IF Get(AnswerPayload(r), key).t = "string" THEN Get(AnswerPayload(r), key).v ELSE undefined

\* C25: a successful refresh produces the account id of the issuer's identity
\* token if that yields one, else that of the new access token, else the
\* configured fallback (absent when none is configured), whatever account id the
\* replaced TokenState held
C25_AccountIdResolution ==
    [][\A r \in AllReqs :
          RefreshSucceeds(r) =>
              ProducedState(r).accountId
                  = IF AccountIdIn(PayloadString(r, "id_token")) # undefined
                    THEN AccountIdIn(PayloadString(r, "id_token"))
                    ELSE IF AccountIdIn(PayloadString(r, "access_token")) # undefined
                    THEN AccountIdIn(PayloadString(r, "access_token"))
                    ELSE env.CHATGPT_ACCOUNT_ID]_vars

\* the server replaced a TokenState that held an account id by one without any:
\* neither token of the answer carries an account id and none is configured
C25_OldAccountIdDropped ==
    /\ impl = "server"
    /\ env.CHATGPT_ACCOUNT_ID = undefined
    /\ BootTokenState(env).accountId = "acct-boot"
    /\ tokenState.accountId = undefined
    /\ tokenState.accessToken = "at2"

\* the text of request r's Authorization header, trimmed
AuthorizationText(r) ==
    IF request[r].headers.authorization.present THEN trim(request[r].headers.authorization.value)
    ELSE <<>>

\* C26: the diagnostic logged for an unauthorized request never holds the text
\* of its Authorization header, also when that header is a single word that is
\* no scheme name
C26_HeaderTextNotLogged ==
    \A r \in AllReqs :
        (/\ warned[r] # <<>>
         /\ AuthorizationText(r) # <<>>
         /\ toLowerCase(AuthorizationText(r))
               \notin {<<"b", "e", "a", "r", "e", "r">>, <<"b", "a", "s", "i", "c">>})
            => warned[r][1].authScheme # AuthorizationText(r)

\* the requests that have come in
Received(r) == pc[r] # "idle"

\* request r has been answered with 404 'Not found'
AnsweredNotFound(r) ==
    /\ pc[r] = "done"
    /\ reply[r].status = 404
    /\ reply[r].body = JStr("Not found")

\* C27: in both implementations OPTIONS on any path answers 204; GET on a health
\* or models path answers 200 whatever credentials the request carries; POST on
\* a responses path enters the proxy operation; every other method and path
\* answers 404 'Not found'
C27_RoutingTable ==
    \A r \in AllReqs :
        Received(r) =>
            LET method == request[r].method
                path == request[r].path
            IN  CASE method = "OPTIONS" -> pc[r] = "done" /\ reply[r].status = 204
                  [] method = "GET" /\ path \in {"/", "/health", "/v1/models", "/openai/v1/models"} ->
                         pc[r] = "done" /\ reply[r].status = 200
                  [] method = "POST" /\ path \in {"/v1/responses", "/openai/v1/responses"} ->
                         ~AnsweredNotFound(r)
                  [] OTHER -> AnsweredNotFound(r)

\* the step in which request r's refresh fails: the token endpoint's answer is
\* processed and it is one the refresher refuses
RefreshFails(r) ==
    /\ tokenCalls[r] # <<>>
    /\ ~Last(tokenCalls[r]).answered
    /\ Len(tokenCalls'[r]) = Len(tokenCalls[r])
    /\ Last(tokenCalls'[r]).answered
    /\ IssuerRefuses(Last(tokenCalls'[r]).response)

\* C28: a refresh that fails (no answer, a non-success status, a payload without
\* a usable access_token) leaves the token store as it was, in getValidToken and
\* in the forced refresh after a 401
C28_FailedRefreshKeepsStore ==
    [][\A r \in AllReqs :
          RefreshFails(r) =>
              /\ tokenState' = tokenState
              /\ TOKEN_STORE' = TOKEN_STORE
              /\ ~Last(tokenCalls'[r]).result.ok]_vars

\* the server's forced refresh after a 401 failed on a payload without
\* access_token and the store still holds the state of the first refresh
C28_ForcedRefreshFailedStoreKept ==
    /\ impl = "server"
    /\ \E r \in AllReqs :
          /\ Len(tokenCalls[r]) = 2
          /\ tokenCalls[r][1].result.ok
          /\ tokenCalls[r][2].forced
          /\ tokenCalls[r][2].answered
          /\ responseOk(tokenCalls[r][2].response)
          /\ IssuerRefuses(tokenCalls[r][2].response)
          /\ tokenState = tokenCalls[r][1].result.state

\* a step of request r's handler before getValidToken: the request is routed,
\* a chunk of its body arrives, or it is answered without a token
PreTokenStep(r) ==
    /\ pc[r] \in {"idle", "readJsonBody"}
    /\ pc'[r] \in {"readJsonBody", "done"}
    /\ pc'[r] # pc[r] \/ bodyRead'[r] # bodyRead[r]

\* the step in which a GET on a health path is answered
HealthStep(r) ==
    /\ pc[r] = "idle"
    /\ pc'[r] = "done"
    /\ request'[r].method = "GET"
    /\ request'[r].path \in {"/", "/health"}

\* C29: a request that ends before getValidToken (any OPTIONS, GET or unknown
\* route, an unauthorized POST, a POST whose body does not parse or exceeds the
\* cap) changes neither tokenState nor the KV entry and issues no token-endpoint
\* and no upstream call; the server's health check reports an expired token as
\* expired and leaves it at that
C29_NoEffectBeforeToken ==
    [][\A r \in AllReqs :
          /\ PreTokenStep(r) =>
                /\ tokenState' = tokenState
                /\ TOKEN_STORE' = TOKEN_STORE
                /\ tokenCalls'[r] = <<>>
                /\ upstreamCalls'[r] = <<>>
          /\ (/\ HealthStep(r)
              /\ impl = "server"
              /\ tokenState.accessToken # ""
              /\ tokenState.expiresAt <= now)
                => Field(reply'[r].body, "tokenStatus").v.kind = "expired"]_vars

\* the server answered a health check with 'expired' and still holds the expired
\* boot token, with no call made
C29_ExpiredReportedNotRefreshed ==
    /\ impl = "server"
    /\ \E r \in AllReqs :
          /\ pc[r] = "done"
          /\ request[r].method = "GET"
          /\ request[r].path = "/health"
          /\ Field(reply[r].body, "tokenStatus").v.kind = "expired"
          /\ tokenState = BootTokenState(env)
          /\ tokenState.accessToken = "at4"
          /\ tokenCalls[r] = <<>>
          /\ upstreamCalls[r] = <<>>

\* C30: the token store never holds an expiry without an access token: an empty
\* access token goes with expiresAt = 0, a refresh that succeeds produces a
\* non-empty access token, and so whenever the server's getValidToken returns
\* the stored state without a refresh that state has an access token
C30_NoExpiryWithoutAccessToken ==
    /\ StoredTokenState.accessToken = "" => StoredTokenState.expiresAt = 0
    /\ \A ri \in SuccessfulRefreshes :
          tokenCalls[ri[1]][ri[2]].result.state.accessToken \notin {"", undefined}
    /\ \A r \in AllReqs :
          (upstreamCalls[r] # <<>> /\ tokenCalls[r] = <<>>) => token[r].accessToken # ""

\* the server booted without an access token, a request's refresh was refused,
\* and the store still holds no access token and expiresAt 0
C30_EmptyTokenAfterRefusedRefresh ==
    /\ impl = "server"
    /\ tokenState.accessToken = ""
    /\ tokenState.expiresAt = 0
    /\ \E r \in AllReqs :
          /\ tokenCalls[r] # <<>>
          /\ Last(tokenCalls[r]).answered
          /\ Get(Last(tokenCalls[r]).response.payload, "access_token") = JStr("")

\* the step in which request r issues its forced refresh
ForcedRefreshIssued(r) ==
    /\ Len(tokenCalls'[r]) = Len(tokenCalls[r]) + 1
    /\ Last(tokenCalls'[r]).forced

\* C31: the server's forced refresh after a 401 presents the refresh token of
\* the snapshot the request holds, whatever the store holds by then; when it
\* succeeds on an answer without a refresh token, the state it installs carries
\* the presented refresh token, also over a newer one in the store
C31_ForcedRefreshUsesSnapshot ==
    [][impl = "server" =>
          \A r \in AllReqs :
              /\ ForcedRefreshIssued(r) =>
                    /\ Last(tokenCalls'[r]).refresh_token = token[r].refreshToken
                    /\ upstreamCalls[r][1].headers.authorization
                          = "Bearer " \o token[r].accessToken
              /\ (/\ RefreshSucceeds(r)
                  /\ Last(tokenCalls[r]).forced
                  /\ SuppliedRefreshToken(r) = undefined)
                    => tokenState'.refreshToken = PresentedRefreshToken(r)]_vars

\* a forced refresh presented the boot refresh token after another request had
\* installed a rotated one, the issuer answered without a refresh token, and the
\* store holds the boot refresh token again
C31_NewerRefreshTokenOverwritten ==
    /\ impl = "server"
    /\ \E r, q \in AllReqs :
          /\ r # q
          /\ tokenCalls[r] # <<>>
          /\ Last(tokenCalls[r]).forced
          /\ Last(tokenCalls[r]).answered
          /\ Last(tokenCalls[r]).result.ok
          /\ Last(tokenCalls[r]).refresh_token = "rt0"
          /\ Get(Last(tokenCalls[r]).response.payload, "refresh_token") = JUndef
          /\ tokenState = Last(tokenCalls[r]).result.state
          /\ tokenState.refreshToken = "rt0"
          /\ \E i \in DOMAIN tokenCalls[q] :
                /\ tokenCalls[q][i].answered
                /\ tokenCalls[q][i].result.ok
                /\ tokenCalls[q][i].result.state.refreshToken = "rt1"

\* the step in which request r issues an upstream call
UpstreamCallIssued(r) == Len(upstreamCalls'[r]) = Len(upstreamCalls[r]) + 1

\* the snapshot request r holds after the step came from the step the call
\* belongs to: getValid (the stored state, or the outcome of r's own refresh)
\* for the first call, the forced refresh for the retry
SnapshotOfItsStep(r) ==
    IF Len(upstreamCalls'[r]) = 1
    THEN \/ /\ tokenCalls'[r] = <<>>
            /\ token'[r] = IF impl = "server" THEN tokenState ELSE TOKEN_STORE[1]
         \/ /\ Len(tokenCalls'[r]) = 1
            /\ ~Last(tokenCalls'[r]).forced
            /\ Last(tokenCalls'[r]).result.ok
            /\ token'[r] = Last(tokenCalls'[r]).result.state
    ELSE /\ Last(tokenCalls'[r]).forced
         /\ Last(tokenCalls'[r]).result.ok
         /\ token'[r] = Last(tokenCalls'[r]).result.state

\* an upstream header whose value is the proxy secret
CarriesSecret(h, secret) == h.present /\ trim(h.value) = secret

BearerOfSnapshot(r) ==
    UpstreamCallIssued(r) =>
        /\ SnapshotOfItsStep(r)
        /\ Last(upstreamCalls'[r]).headers.authorization = "Bearer " \o token'[r].accessToken

SecretKeptBack(r) ==
    UpstreamCallIssued(r) =>
        /\ ~CarriesSecret(Last(upstreamCalls'[r]).headers.x_api_key, env.PROXY_SECRET)
        /\ ~CarriesSecret(Last(upstreamCalls'[r]).headers.api_key, env.PROXY_SECRET)

\* C32: every upstream call carries "Bearer " followed by the access token of
\* the snapshot the request holds at that step (from getValid for the first
\* call, from the forced refresh for the retry), and no upstream header carries
\* the caller's proxy secret
C32_CredentialSeparation ==
    [][\A r \in AllReqs : BearerOfSnapshot(r) /\ SecretKeptBack(r)]_vars

\* the positions of the error events, and of the failed events that embed an error
ErrorEventsAt(events) == {n \in 1..Len(events) : IsErrorEvent(events[n])}

EmbeddedErrorsAt(events) == {n \in 1..Len(events) : IsFailedWithError(events[n])}

TerminalsAt(events) == {n \in 1..Len(events) : IsTerminal(events[n])}

\* C33: in the aggregation of a parsed answer an error event dominates an error
\* embedded in a failed event, before or after it: with an error event the
\* error result is that of the last one, without any it is the embedded error
\* of the first failed event that has one, and the completed result is the
\* response of the last completed or failed event; the reply carries that error
C33_ErrorEventDominates ==
    \A r \in AllReqs :
        ParsedAnswer(r) =>
            LET events == AnswerEvents(r)
                errors == ErrorEventsAt(events)
                embedded == EmbeddedErrorsAt(events)
                terminals == TerminalsAt(events)
                result == Aggregated(r)
            IN  /\ errors # {} => result.error = Field(events[LastOf(errors)].data, "error")
                /\ (errors = {} /\ embedded # {}) =>
                      result.error = Field(Field(events[FirstOf(embedded)].data, "response"), "error")
                /\ (errors = {} /\ embedded = {}) => result.error = JNull
                /\ terminals # {} =>
                      result.completed = Field(events[LastOf(terminals)].data, "response")
                /\ terminals = {} => result.completed = JNull
                /\ (errors # {} /\ Last(upstreamCalls[r]).response.status = 200) =>
                      /\ reply[r].status = 400
                      /\ Field(reply[r].body, "error") = result.error

\* an answer whose failed event embeds an error and comes before an error event
\* was answered with the error of the error event, and its completed result is
\* the failed event's response
C33_LaterErrorEventReplacesEmbedded ==
    \E r \in AllReqs :
        /\ ParsedAnswer(r)
        /\ LET events == AnswerEvents(r)
           IN  \E n, m \in 1..Len(events) :
                  /\ n < m
                  /\ IsFailedWithError(events[n])
                  /\ IsErrorEvent(events[m])
                  /\ Aggregated(r).error = Field(events[m].data, "error")
                  /\ Aggregated(r).error # Field(Field(events[n].data, "response"), "error")
                  /\ Aggregated(r).completed = Field(events[n].data, "response")
                  /\ reply[r].status = 400
                  /\ Field(reply[r].body, "error") = Field(events[m].data, "error")

====
